---- MODULE Spec2Model ----
(***************************************************************************)
(* A model of spire's Assembly (src/spire/core/assembly.py): the           *)
(* configuration tree (configure / get_configuration), the instance cache  *)
(* (acquire / instantiate under the reentrant guard), the thread-local     *)
(* current-assembly slot (promote / demote / current, scoped use), collate *)
(* and filter_configuration; and of its collaborators: the tokens of mesh  *)
(* and schema dependencies, Schema.interface, the engine cache and the     *)
(* session of the schema interface, and the daemon runtime.                *)
(*                                                                         *)
(* The specifications share the variables:                                 *)
(*   SpecConfig      one caller configuring and reading one assembly       *)
(*   SpecAcquire     threads calling instantiate/acquire on assemblies     *)
(*   SpecLocal       threads promoting, demoting and scoping assemblies    *)
(*   SpecCollate     units cached in an assembly and collated              *)
(*   SpecFilter      filter_configuration on a configured assembly         *)
(*   SpecTokens      dependencies constructed with their tokens            *)
(*   SpecDaemon      the daemon runtime's constructor                      *)
(*   SpecGuard       threads in acquire, get_configuration and configure   *)
(*   SpecDependency  a thread resolving schema dependencies                *)
(*   SpecLater       one key configured repeatedly, around registration    *)
(*   SpecNested      acquire calls nested inside instantiators             *)
(*   SpecReentrant   nested acquire / get_configuration, fairly scheduled  *)
(*   SpecEngine      threads in SchemaInterface._acquire_engine            *)
(*   SpecPurge       threads in _acquire_engine and purge                  *)
(*   SpecSession     an EnhancedSession and its after-commit callbacks     *)
(***************************************************************************)
EXTENDS Integers, Sequences, FiniteSets, TLC

VARIABLES
    configuration,  \* Assembly.configuration: token -> validated data
    pending,        \* Assembly.pending: token -> raw data
    schemas,        \* Registry.schemas: the tokens that have a schema
    last,           \* the last configuration call: its inputs and outcome
    ncalls,         \* number of configuration calls made so far
    local,          \* Assembly.local.assembly of every thread
    scopes,         \* the `with assembly:` blocks every thread is inside of
    lastLocal,      \* the last promote/demote/enter/exit call and its result
    nlocal,         \* number of promote/demote/enter/exit calls made so far
    cache,          \* Assembly.cache of every assembly: key -> instance
    guard,          \* Assembly.guard of every assembly: owner and hold count
    thread,         \* every thread's position inside instantiate/acquire
    ret,            \* what every thread's last acquire returned or raised
    invoked,        \* per assembly and key: instantiator invocations so far
    failed,         \* per assembly and key: invocations that raised
    tcalls,         \* number of instantiate calls made so far
    units,          \* the unit objects held in Assembly.cache: id -> unit
    collated,       \* the last collate call and what it returned or raised
    filtered,       \* the last filter_configuration call and its result
    declared,       \* the dependencies constructed so far, each with its unit and token
    boot,           \* the daemon runtime: its position in Runtime.__init__ and what it did
    stack,          \* the calls of acquire / get_configuration every thread is inside of
    exits,          \* how every thread last left acquire / get_configuration
    written,        \* the last write of cache, configuration or pending
    gcalls,         \* number of calls made so far under SpecGuard
    configs,        \* configuration and pending of every assembly, and what was passed to configure
    resolved,       \* the last resolution of a schema dependency and its result
    dcalls,         \* number of calls made so far under SpecDependency
    latest,         \* per token: the scalar the last configure call set at key x (0: none yet)
    ecache,         \* SchemaInterface.cache: constructed URL -> engine (with its session factory)
    eguard,         \* SchemaInterface.guard: the thread that holds the Lock, or 0
    ethread,        \* every thread's position inside _acquire_engine / purge
    engines,        \* the engines created so far: the URL of each
    disposed,       \* the engines purge has disposed
    ecalls,         \* number of _acquire_engine / purge calls made so far
    callbacks,      \* EnhancedSession._call_after_commit: the callbacks registered, <<>> when the attribute is absent
    loop,           \* the commit in progress: the callback it is running and those it has yet to run
    history         \* what happened to every callback registered on the session

cfgVars == <<configuration, pending, schemas, last, ncalls>>
localVars == <<local, scopes, lastLocal, nlocal>>
acqVars == <<cache, guard, thread, ret, invoked, failed, tcalls>>
unitVars == <<units, collated>>
filterVars == <<filtered>>
tokenVars == <<declared>>
bootVars == <<boot>>
guardVars == <<stack, exits, written, gcalls>>
depVars == <<configs, resolved, dcalls>>
laterVars == <<latest>>
engineVars == <<ecache, eguard, ethread, engines, disposed, ecalls>>
sessionVars == <<callbacks, loop, history>>
coreVars == <<cfgVars, localVars, acqVars>>
extVars == <<unitVars, filterVars, tokenVars, bootVars, guardVars, depVars, laterVars, engineVars, sessionVars>>
exceptUnitVars == <<filterVars, tokenVars, bootVars, guardVars, depVars, laterVars, engineVars, sessionVars>>
exceptFilterVars == <<unitVars, tokenVars, bootVars, guardVars, depVars, laterVars, engineVars, sessionVars>>
exceptTokenVars == <<unitVars, filterVars, bootVars, guardVars, depVars, laterVars, engineVars, sessionVars>>
exceptBootVars == <<unitVars, filterVars, tokenVars, guardVars, depVars, laterVars, engineVars, sessionVars>>
exceptGuardVars == <<unitVars, filterVars, tokenVars, bootVars, depVars, laterVars, engineVars, sessionVars>>
exceptDepVars == <<unitVars, filterVars, tokenVars, bootVars, guardVars, laterVars, engineVars, sessionVars>>
exceptLaterVars == <<unitVars, filterVars, tokenVars, bootVars, guardVars, depVars, engineVars, sessionVars>>
exceptEngineVars == <<unitVars, filterVars, tokenVars, bootVars, guardVars, depVars, laterVars, sessionVars>>
exceptSessionVars == <<unitVars, filterVars, tokenVars, bootVars, guardVars, depVars, laterVars, engineVars>>

vars == <<coreVars, extVars>>

----------------------------------------------------------------------------
(* Bounds *)

\* configuration calls made under SpecConfig
MaxCalls == 3
\* threads of SpecLocal and SpecAcquire
NThreads == 2
\* nesting depth of `with assembly:` blocks on one thread
MaxDepth == 2
\* promote/demote/enter/exit calls made under SpecLocal
MaxLocalOps == 3
\* instantiate calls made, by all threads together, under SpecAcquire
MaxAcquireCalls == 2

Threads == 1..NThreads

----------------------------------------------------------------------------
(* Configuration data: a value is a scalar leaf or a nested mapping.       *)

Leaf(v) == [leaf |-> v]
Map(f) == [map |-> f]
IsMap(n) == "map" \in DOMAIN n
NoneValue == [none |-> TRUE]
EmptyDict == [k \in {} |-> NoneValue]

Tokens == {"a", "b"}

\* a raw scalar the schema rejects
BadScalar == 0

Dict1(k, v) == [kk \in {k} |-> v]

DataInputs ==
    { Map(Dict1("x", Leaf(1))),
      Map(Dict1("y", Leaf(2))),
      Map(Dict1("x", Leaf(2))),
      Map(Dict1("x", Map(Dict1("y", Leaf(1))))),
      Map(Dict1("x", Map(Dict1("x", Leaf(2))))),
      Map(Dict1("x", Leaf(BadScalar))) }

\* the data used in mappings that configure several tokens in one call
SharedDataInputs ==
    { Map(Dict1("x", Leaf(1))),
      Map(Dict1("x", Leaf(BadScalar))) }

\* the mappings passed to configure: one token with any data, or every
\* token with data of SharedDataInputs
ConfigInputs ==
    UNION { [{t} -> DataInputs] : t \in Tokens } \cup [Tokens -> SharedDataInputs]

\* the orders in which a dict with key set S may be iterated
Orders(S) ==
    { o \in [1..Cardinality(S) -> S] : \A i, j \in 1..Cardinality(S) : i # j => o[i] # o[j] }

----------------------------------------------------------------------------
(* spire.util.recursive_merge: nested mappings merge key by key, any other *)
(* value at a key is replaced by the addition's value.                     *)

RECURSIVE recursive_merge(_, _)
recursive_merge(original, addition) ==
    [k \in DOMAIN original \cup DOMAIN addition |->
        IF k \notin DOMAIN addition THEN original[k]
        ELSE IF k \in DOMAIN original /\ IsMap(original[k]) /\ IsMap(addition[k])
             THEN Map(recursive_merge(original[k].map, addition[k].map))
             ELSE addition[k]]

(* schema.process(data, serialized=True): rejects bad input, otherwise     *)
(* returns the coerced value (a scalar v becomes Coerced(v)).              *)

Coerced(v) == v + 10

RECURSIVE Valid(_)
Valid(n) ==
    IF IsMap(n) THEN \A k \in DOMAIN n.map : Valid(n.map[k])
    ELSE n.leaf # BadScalar

RECURSIVE process(_)
process(n) ==
    IF IsMap(n) THEN Map([k \in DOMAIN n.map |-> process(n.map[k])])
    ELSE Leaf(Coerced(n.leaf))

Remove(d, k) == [kk \in DOMAIN d \ {k} |-> d[kk]]

----------------------------------------------------------------------------
(* Assembly.configure *)

\* mutant of configure_token: the raw data goes to pending whether or not a
\* schema is registered
configure_token_unrouted(st, sch, token, data) ==
    IF token \in sch /\ ~Valid(data)
    THEN [st EXCEPT !.raised = TRUE]
    ELSE [st EXCEPT !.pending = recursive_merge(st.pending, Dict1(token, data)),
                    !.configuration =
                        IF token \in sch
                        THEN recursive_merge(st.configuration, Dict1(token, process(data)))
                        ELSE st.configuration]

\* mutant of configure_token: the token's entry is replaced, not merged
configure_token_replace(st, sch, token, data) ==
    IF token \in sch
    THEN IF Valid(data)
         THEN [st EXCEPT !.configuration =
                  [k \in DOMAIN st.configuration \cup {token} |->
                      IF k = token THEN process(data) ELSE st.configuration[k]]]
         ELSE [st EXCEPT !.raised = TRUE]
    ELSE [st EXCEPT !.pending =
             [k \in DOMAIN st.pending \cup {token} |->
                 IF k = token THEN data ELSE st.pending[k]]]

\* one iteration of the loop of configure: st is [configuration, pending, raised]
configure_token(st, sch, token, data) ==
    IF token \in sch
    THEN IF Valid(data)
         THEN [st EXCEPT !.configuration =
                  recursive_merge(st.configuration, Dict1(token, process(data)))]
         ELSE [st EXCEPT !.raised = TRUE]
    ELSE [st EXCEPT !.pending = recursive_merge(st.pending, Dict1(token, data))]

RECURSIVE configure_loop(_, _, _, _, _)
configure_loop(st, sch, input, order, i) ==
    IF i > Len(order) \/ st.raised THEN st
    ELSE configure_loop(configure_token(st, sch, order[i], input[order[i]]),
                        sch, input, order, i + 1)

configure(cfg, pend, sch, input, order) ==
    configure_loop([configuration |-> cfg, pending |-> pend, raised |-> FALSE],
                   sch, input, order, 1)

----------------------------------------------------------------------------
(* Assembly.get_configuration *)

\* mutant of resolve_token: the resolved token is read from pending but not
\* evicted
resolve_token_keep(st, sch, tk) ==
    IF tk \in sch
    THEN IF Valid(st.pending[tk])
         THEN [st EXCEPT !.token = tk,
                         !.configuration =
                             recursive_merge(st.configuration,
                                             Dict1(tk, process(st.pending[tk])))]
         ELSE [st EXCEPT !.token = tk, !.raised = TRUE]
    ELSE [st EXCEPT !.token = tk]

\* one iteration of the loop over pending.keys(): the loop variable is the
\* method's own parameter `token`, so st.token is rebound on every iteration
resolve_token(st, sch, tk) ==
    IF tk \in sch
    THEN IF Valid(st.pending[tk])
         THEN [st EXCEPT !.token = tk,
                         !.pending = Remove(st.pending, tk),
                         !.configuration =
                             recursive_merge(st.configuration,
                                             Dict1(tk, process(st.pending[tk])))]
         ELSE [st EXCEPT !.token = tk,
                         !.pending = Remove(st.pending, tk),
                         !.raised = TRUE]
    ELSE [st EXCEPT !.token = tk]

RECURSIVE resolve_loop(_, _, _, _)
resolve_loop(st, sch, order, i) ==
    IF i > Len(order) \/ st.raised THEN st
    ELSE resolve_loop(resolve_token(st, sch, order[i]), sch, order, i + 1)

\* the final lookup, self.configuration[token]
lookup(st) ==
    IF st.raised
    THEN [configuration |-> st.configuration, pending |-> st.pending,
          outcome |-> "ValidationError", value |-> NoneValue]
    ELSE IF st.token \in DOMAIN st.configuration
    THEN [configuration |-> st.configuration, pending |-> st.pending,
          outcome |-> "return", value |-> st.configuration[st.token]]
    ELSE [configuration |-> st.configuration, pending |-> st.pending,
          outcome |-> "KeyError", value |-> NoneValue]

get_configuration(cfg, pend, sch, token, order) ==
    IF token \in DOMAIN cfg
    THEN [configuration |-> cfg, pending |-> pend,
          outcome |-> "return", value |-> cfg[token]]
    ELSE lookup(resolve_loop([configuration |-> cfg, pending |-> pend,
                              token |-> token, raised |-> FALSE],
                             sch, order, 1))

----------------------------------------------------------------------------
(* The configuration calls as actions *)

NoCall == [op |-> "none", token |-> "", input |-> EmptyDict,
           outcome |-> "return", value |-> NoneValue, moved |-> {}]

\* a new assembly; schemas registered at import time are there already
InitCfgVars ==
    /\ configuration = EmptyDict
    /\ pending = EmptyDict
    /\ schemas \in SUBSET Tokens
    /\ last = NoCall
    /\ ncalls = 0

\* a new assembly in a process that has registered no schema
InitCfgVarsNoSchema ==
    /\ InitCfgVars
    /\ schemas = {}

RegisterSchema(t) ==
    /\ ncalls < MaxCalls
    /\ t \notin schemas
    /\ schemas' = schemas \cup {t}
    /\ last' = [NoCall EXCEPT !.op = "register", !.token = t]
    /\ ncalls' = ncalls + 1
    /\ UNCHANGED <<configuration, pending, localVars, acqVars, extVars>>

Configure(input, order) ==
    /\ ncalls < MaxCalls
    /\ LET r == configure(configuration, pending, schemas, input, order) IN
        /\ configuration' = r.configuration
        /\ pending' = r.pending
        /\ last' = [NoCall EXCEPT !.op = "configure", !.input = input,
                        !.outcome = IF r.raised THEN "ValidationError" ELSE "return"]
    /\ ncalls' = ncalls + 1
    /\ UNCHANGED <<schemas, localVars, acqVars, extVars>>

GetConfiguration(token, order) ==
    /\ ncalls < MaxCalls
    /\ LET r == get_configuration(configuration, pending, schemas, token, order) IN
        /\ configuration' = r.configuration
        /\ pending' = r.pending
        /\ last' = [NoCall EXCEPT !.op = "get_configuration", !.token = token,
                        !.outcome = r.outcome, !.value = r.value,
                        !.moved = DOMAIN pending \ DOMAIN r.pending]
    /\ ncalls' = ncalls + 1
    /\ UNCHANGED <<schemas, localVars, acqVars, extVars>>

NextConfig ==
    \/ \E t \in Tokens : RegisterSchema(t)
    \/ \E input \in ConfigInputs : \E order \in Orders(DOMAIN input) :
          Configure(input, order)
    \/ \E token \in Tokens : \E order \in Orders(DOMAIN pending) :
          GetConfiguration(token, order)

----------------------------------------------------------------------------
(* The current-assembly context: Assembly.local, Assembly.standard,        *)
(* promote, demote, current, __enter__ and __exit__.                       *)

None == "None"
standard == "standard"
Assemblies == {standard, "A", "B"}

\* mutant of current: the thread-local slot is ignored
current_standard_only(slot) == standard

\* Assembly.current: cls.local.assembly or cls.standard
current(slot) == IF slot # None THEN slot ELSE standard

\* Assembly.promote: the thread's slot after self.promote()
promote(slot, self) == self

\* mutant of demote: the slot is never cleared
demote_never(slot, self) == slot

\* mutant of demote: the slot is cleared whatever it points to
demote_unconditional(slot, self) == None

\* Assembly.demote: the thread's slot after self.demote()
demote(slot, self) == IF slot = self THEN None ELSE slot

\* slot: the thread's slot before the call; prior: for exit, the slot before
\* the block was entered
NoLocalCall == [th |-> 0, op |-> "none", self |-> None, ret |-> None, how |-> "none",
                slot |-> None, prior |-> None]

InitLocalVars ==
    /\ local = [th \in Threads |-> None]
    /\ scopes = [th \in Threads |-> <<>>]
    /\ lastLocal = NoLocalCall
    /\ nlocal = 0

\* mutant of Promote: Assembly.local is one object shared by all threads
Promote_shared(th, a) ==
    /\ nlocal < MaxLocalOps
    /\ nlocal' = nlocal + 1
    /\ local' = [o \in Threads |-> promote(local[o], a)]
    /\ lastLocal' = [NoLocalCall EXCEPT !.th = th, !.op = "promote", !.self = a, !.ret = a,
                                        !.slot = local[th]]
    /\ UNCHANGED <<scopes, cfgVars, acqVars, extVars>>

\* th calls a.promote(); the call returns self
Promote(th, a) ==
    /\ nlocal < MaxLocalOps
    /\ nlocal' = nlocal + 1
    /\ local' = [local EXCEPT ![th] = promote(local[th], a)]
    /\ lastLocal' = [NoLocalCall EXCEPT !.th = th, !.op = "promote", !.self = a, !.ret = a,
                                        !.slot = local[th]]
    /\ UNCHANGED <<scopes, cfgVars, acqVars, extVars>>

\* th calls a.demote(); the call returns self
Demote(th, a) ==
    /\ nlocal < MaxLocalOps
    /\ nlocal' = nlocal + 1
    /\ local' = [local EXCEPT ![th] = demote(local[th], a)]
    /\ lastLocal' = [NoLocalCall EXCEPT !.th = th, !.op = "demote", !.self = a, !.ret = a,
                                        !.slot = local[th]]
    /\ UNCHANGED <<scopes, cfgVars, acqVars, extVars>>

\* th calls Assembly.current()
Current(th) ==
    /\ nlocal < MaxLocalOps
    /\ nlocal' = nlocal + 1
    /\ lastLocal' = [NoLocalCall EXCEPT !.th = th, !.op = "current",
                                        !.ret = current(local[th]),
                                        !.slot = local[th]]
    /\ UNCHANGED <<local, scopes, cfgVars, acqVars, extVars>>

\* th enters `with a:`: __enter__ promotes a. The scope remembers the slot
\* as it was before entry.
Enter(th, a) ==
    /\ nlocal < MaxLocalOps
    /\ nlocal' = nlocal + 1
    /\ Len(scopes[th]) < MaxDepth
    /\ local' = [local EXCEPT ![th] = promote(local[th], a)]
    /\ scopes' = [scopes EXCEPT ![th] = Append(@, [self |-> a, prior |-> local[th]])]
    /\ lastLocal' = [NoLocalCall EXCEPT !.th = th, !.op = "enter", !.self = a,
                                        !.slot = local[th]]
    /\ UNCHANGED <<cfgVars, acqVars, extVars>>

\* th leaves its innermost `with a:` block, normally or by an exception:
\* __exit__ demotes a and returns None, so an exception propagates.
Exit(th, how) ==
    /\ nlocal < MaxLocalOps
    /\ nlocal' = nlocal + 1
    /\ Len(scopes[th]) > 0
    /\ LET top == scopes[th][Len(scopes[th])] IN
        /\ local' = [local EXCEPT ![th] = demote(local[th], top.self)]
        /\ lastLocal' = [NoLocalCall EXCEPT !.th = th, !.op = "exit",
                                            !.self = top.self, !.how = how,
                                            !.slot = local[th], !.prior = top.prior]
    /\ scopes' = [scopes EXCEPT ![th] = SubSeq(@, 1, Len(@) - 1)]
    /\ UNCHANGED <<cfgVars, acqVars, extVars>>

NextLocal ==
    \/ \E th \in Threads, a \in Assemblies : Promote(th, a)
    \/ \E th \in Threads, a \in Assemblies : Demote(th, a)
    \/ \E th \in Threads : Current(th)
    \/ \E th \in Threads, a \in Assemblies : Enter(th, a)
    \/ \E th \in Threads, how \in {"normal", "exception"} : Exit(th, how)

----------------------------------------------------------------------------
(* Assembly.instantiate and Assembly.acquire, run by threads.              *)

\* the assemblies the threads instantiate on
AcquireAssemblies == {standard, "A"}

\* unit types, and the strings that import_object resolves to them
Units == {"U1", "U2"}
UnitNames == {"pkg.U1", "pkg.U2"}

\* spire.util.import_object
import_object(name) == IF name = "pkg.U1" THEN "U1" ELSE "U2"

\* unit.identity: the cache key of a unit type
identity(unit) == IF unit = "U1" THEN "id:U1" ELSE "id:U2"
Keys == { identity(u) : u \in Units }

\* the exceptions an instantiator may raise
Exceptions == {"E1", "E2"}

Idle == [pc |-> "idle", asm |-> None, key |-> "", overlap |-> FALSE,
         instance |-> 0, exc |-> None]
NoResult == [asm |-> None, key |-> "", outcome |-> "none", instance |-> 0,
             exc |-> None, overlap |-> FALSE]

InitAcqVars ==
    /\ cache = [a \in AcquireAssemblies |-> EmptyDict]
    /\ guard = [a \in AcquireAssemblies |-> [owner |-> 0, count |-> 0]]
    /\ thread = [th \in Threads |-> Idle]
    /\ ret = [th \in Threads |-> NoResult]
    /\ invoked = [a \in AcquireAssemblies |-> [k \in Keys |-> 0]]
    /\ failed = [a \in AcquireAssemblies |-> [k \in Keys |-> 0]]
    /\ tcalls = 0

\* mutant of guard_available: no mutual exclusion
guard_available_always(g, th) == TRUE

\* mutant of guard_available: a plain Lock, which its holder cannot take again
guard_available_nonreentrant(g, th) == g.count = 0

\* RLock.acquire does not block when the lock is free or held by the caller
guard_available(g, th) == g.count = 0 \/ g.owner = th

\* th calls a.instantiate(unit): a string is imported first, then
\* acquire(unit.identity, unit, ()) is entered
Instantiate(th, a, unit) ==
    /\ thread[th].pc = "idle"
    /\ tcalls < MaxAcquireCalls
    /\ LET u == IF unit \in UnitNames THEN import_object(unit) ELSE unit IN
        thread' = [thread EXCEPT ![th] =
            [Idle EXCEPT !.pc = "guard", !.asm = a, !.key = identity(u),
                         !.overlap = \E o \in Threads \ {th} :
                                        /\ thread[o].pc # "idle"
                                        /\ thread[o].asm = a
                                        /\ thread[o].key = identity(u)]]
    /\ tcalls' = tcalls + 1
    /\ UNCHANGED <<cache, guard, ret, invoked, failed, cfgVars, localVars, extVars>>

\* self.guard.acquire()
GuardAcquire(th) ==
    /\ thread[th].pc = "guard"
    /\ guard_available(guard[thread[th].asm], th)
    /\ guard' = [guard EXCEPT ![thread[th].asm] = [owner |-> th, count |-> @.count + 1]]
    /\ thread' = [thread EXCEPT ![th].pc = "lookup"]
    /\ UNCHANGED <<cache, ret, invoked, failed, tcalls, cfgVars, localVars, extVars>>

\* try: return self.cache[key]; except KeyError: call the instantiator
Lookup(th) ==
    /\ thread[th].pc = "lookup"
    /\ LET a == thread[th].asm
           k == thread[th].key IN
        IF k \in DOMAIN cache[a]
        THEN /\ thread' = [thread EXCEPT ![th].pc = "release",
                                         ![th].instance = cache[a][k]]
             /\ UNCHANGED invoked
        ELSE /\ thread' = [thread EXCEPT ![th].pc = "construct"]
             /\ invoked' = [invoked EXCEPT ![a][k] = @ + 1]
    /\ UNCHANGED <<cache, guard, ret, failed, tcalls, cfgVars, localVars, extVars>>

\* instance = self.cache[key] = instantiator(*arguments): the instantiator
\* returns a new instance
ConstructOk(th) ==
    /\ thread[th].pc = "construct"
    /\ LET a == thread[th].asm
           k == thread[th].key
           new == invoked[a][k] IN
        /\ cache' = [cache EXCEPT ![a] =
                        [kk \in DOMAIN @ \cup {k} |-> IF kk = k THEN new ELSE @[kk]]]
        /\ thread' = [thread EXCEPT ![th].pc = "release", ![th].instance = new]
    /\ UNCHANGED <<guard, ret, invoked, failed, tcalls, cfgVars, localVars, extVars>>

\* mutant of ConstructFail: the key is entered in the cache before the
\* instantiator runs, and stays there when it raises
ConstructFail_poisoned(th, e) ==
    /\ thread[th].pc = "construct"
    /\ thread' = [thread EXCEPT ![th].pc = "release", ![th].exc = e]
    /\ failed' = [failed EXCEPT ![thread[th].asm][thread[th].key] = @ + 1]
    /\ cache' = [cache EXCEPT ![thread[th].asm] =
                    [kk \in DOMAIN @ \cup {thread[th].key} |->
                        IF kk = thread[th].key THEN 0 ELSE @[kk]]]
    /\ UNCHANGED <<guard, ret, invoked, tcalls, cfgVars, localVars, extVars>>

\* the instantiator raises e: nothing is assigned
ConstructFail(th, e) ==
    /\ thread[th].pc = "construct"
    /\ thread' = [thread EXCEPT ![th].pc = "release", ![th].exc = e]
    /\ failed' = [failed EXCEPT ![thread[th].asm][thread[th].key] = @ + 1]
    /\ UNCHANGED <<cache, guard, ret, invoked, tcalls, cfgVars, localVars, extVars>>

\* finally: self.guard.release(); then the call returns or re-raises
GuardRelease(th) ==
    /\ thread[th].pc = "release"
    /\ LET a == thread[th].asm
           n == guard[a].count - 1 IN
        guard' = [guard EXCEPT ![a] = [owner |-> IF n = 0 THEN 0 ELSE @.owner,
                                       count |-> n]]
    /\ ret' = [ret EXCEPT ![th] =
                  [asm |-> thread[th].asm, key |-> thread[th].key,
                   outcome |-> IF thread[th].exc # None THEN "raise" ELSE "return",
                   instance |-> thread[th].instance,
                   exc |-> thread[th].exc,
                   overlap |-> thread[th].overlap]]
    /\ thread' = [thread EXCEPT ![th] = Idle]
    /\ UNCHANGED <<cache, invoked, failed, tcalls, cfgVars, localVars, extVars>>

NextAcquire ==
    \/ \E th \in Threads, a \in AcquireAssemblies, unit \in Units \cup UnitNames :
          Instantiate(th, a, unit)
    \/ \E th \in Threads : GuardAcquire(th)
    \/ \E th \in Threads : Lookup(th)
    \/ \E th \in Threads : ConstructOk(th)
    \/ \E th \in Threads, e \in Exceptions : ConstructFail(th, e)
    \/ \E th \in Threads : GuardRelease(th)

----------------------------------------------------------------------------
(* Assembly.collate over the cached unit objects.  A cached unit has a     *)
(* class and declared dependencies; a dependency names the unit class it   *)
(* declares and holds what Dependency.get returns for the owning unit:     *)
(* the resolved instance, or None for an optional dependency whose target  *)
(* is absent.                                                              *)

\* units instantiated into the cache under SpecCollate
MaxUnits == 2

\* Python's None where a unit instance is expected
NoneUnit == 0
UnitIds == 1..MaxUnits

\* the unit classes: Daemon and Mount are subclasses of Unit
Classes == {"Unit", "Daemon", "Mount"}
issubclass(c, d) == c = d \/ d = "Unit"
isinstance(unit, d) == issubclass(unit.cls, d)

\* the attribute names under which a unit declares dependencies
DepNames == {"d"}

\* the dependencies a new unit can declare when the cached units are c:
\* a declared class with an instance of it that is cached, or with None
Dependencies(c) ==
    UNION {{[unit |-> cl, instance |-> i] :
               i \in {NoneUnit} \cup {j \in DOMAIN c : isinstance(c[j], cl)}} :
           cl \in Classes}

DependencyDicts(c) ==
    UNION {[S -> Dependencies(c)] : S \in SUBSET DepNames}

\* Dependency.get(owner): the instance the dependency resolved to, None
\* when it is optional and its target is absent
get(dependency, owner) == dependency.instance

RECURSIVE collate_dependencies(_, _, _, _, _)
collate_dependencies(c, unit, todo, superclass, found) ==
    IF todo = {} THEN found
    ELSE LET n == CHOOSE n \in todo : TRUE
             dependency == unit.dependencies[n]
             found1 == IF issubclass(dependency.unit, superclass)
                       THEN found \cup {get(dependency, unit)}
                       ELSE found
         IN collate_dependencies(c, unit, todo \ {n}, superclass, found1)

RECURSIVE collate_loop(_, _, _, _)
collate_loop(c, todo, superclass, found) ==
    IF todo = {} THEN found
    ELSE LET i == CHOOSE i \in todo : TRUE
             unit == c[i]
             found1 == IF isinstance(unit, superclass)
                       THEN found \cup {i} ELSE found
             found2 == collate_dependencies(c, unit, DOMAIN unit.dependencies,
                                            superclass, found1)
         IN collate_loop(c, todo \ {i}, superclass, found2)

\* collate(superclass, single) over the cache values c
collate(c, superclass, single) ==
    LET found == collate_loop(c, DOMAIN c, superclass, {}) IN
    IF ~single
    THEN [outcome |-> "return", units |-> found, unit |-> NoneUnit]
    ELSE IF Cardinality(found) > 1
    THEN [outcome |-> "Exception", units |-> found, unit |-> NoneUnit]
    ELSE IF found # {}
    THEN [outcome |-> "return", units |-> found,
          unit |-> CHOOSE i \in found : TRUE]
    ELSE [outcome |-> "return", units |-> found, unit |-> NoneUnit]

NoCollate == [superclass |-> None, single |-> FALSE, outcome |-> "none",
              units |-> {}, unit |-> NoneUnit]

InitUnitVars ==
    /\ units = EmptyDict
    /\ collated = NoCollate

\* a unit of class cl with the dependencies deps is instantiated and stored
\* in the cache
CacheUnit(cl, deps) ==
    /\ Cardinality(DOMAIN units) < MaxUnits
    /\ LET i == Cardinality(DOMAIN units) + 1 IN
       units' = [j \in DOMAIN units \cup {i} |->
                    IF j = i THEN [cls |-> cl, dependencies |-> deps]
                    ELSE units[j]]
    /\ UNCHANGED <<collated, coreVars, exceptUnitVars>>

Collate(superclass, single) ==
    /\ LET r == collate(units, superclass, single) IN
       collated' = [superclass |-> superclass, single |-> single,
                    outcome |-> r.outcome, units |-> r.units, unit |-> r.unit]
    /\ UNCHANGED <<units, coreVars, exceptUnitVars>>

NextCollate ==
    \/ \E cl \in Classes : \E deps \in DependencyDicts(units) :
          CacheUnit(cl, deps)
    \/ \E superclass \in Classes, single \in BOOLEAN :
          Collate(superclass, single)

----------------------------------------------------------------------------
(* Assembly.filter_configuration.  Tokens are strings, modelled as         *)
(* sequences of characters, so that prefixes can be compared: "m" stands   *)
(* for the text mesh, "p" for proxy, "s" for schema.                       *)

\* 'mesh:x', 'mesh-proxy:x', 'mesh', 'schema:x'
FilterTokens == {<<"m", ":", "x">>, <<"m", "-", "p", ":", "x">>, <<"m">>,
                 <<"s", ":", "x">>}

\* 'mesh', 'mesh:', 'mesh-proxy', 'schema', 'mesh:x' and the empty string
Prefixes == {<<"m">>, <<"m", ":">>, <<"m", "-", "p">>, <<"s">>,
             <<"m", ":", "x">>, <<>>}

\* str.startswith
startswith(s, prefix) ==
    Len(prefix) <= Len(s) /\ SubSeq(s, 1, Len(prefix)) = prefix

\* mutant of with_colon: the prefix is used as it was passed
with_colon_never(prefix) == prefix

\* lines 86-87: a prefix that does not end with ':' gets one appended
with_colon(prefix) ==
    IF prefix[Len(prefix)] # ":" THEN prefix \o <<":">> ELSE prefix

RECURSIVE filter_loop(_, _, _, _)
filter_loop(cfg, todo, prefix, result) ==
    IF todo = {} THEN result
    ELSE LET token == CHOOSE token \in todo : TRUE
             result1 == IF startswith(token, prefix)
                        THEN [t \in DOMAIN result \cup {token} |->
                                 IF t = token THEN cfg[token] ELSE result[t]]
                        ELSE result
         IN filter_loop(cfg, todo \ {token}, prefix, result1)

\* filter_configuration(prefix) on the configuration cfg; prefix[-1] of the
\* empty string raises IndexError
filter_configuration(cfg, prefix) ==
    IF prefix = <<>>
    THEN [outcome |-> "IndexError", value |-> EmptyDict]
    ELSE [outcome |-> "return",
          value |-> filter_loop(cfg, DOMAIN cfg, with_colon(prefix), EmptyDict)]

NoFilter == [prefix |-> <<>>, outcome |-> "none", value |-> EmptyDict]

InitFilterVars == filtered = NoFilter

\* the configuration and the pending entries that earlier configure calls
\* left: resolved entries hold 1, pending entries hold 2
InitFilterCfg ==
    /\ configuration \in UNION {[S -> {Leaf(1)}] : S \in SUBSET FilterTokens}
    /\ pending \in UNION {[S -> {Leaf(2)}] : S \in SUBSET FilterTokens}
    /\ schemas = {}
    /\ last = NoCall
    /\ ncalls = 0

FilterConfiguration(prefix) ==
    /\ LET r == filter_configuration(configuration, prefix) IN
       filtered' = [prefix |-> prefix, outcome |-> r.outcome, value |-> r.value]
    /\ UNCHANGED <<coreVars, exceptFilterVars>>

NextFilter == \E prefix \in Prefixes : FilterConfiguration(prefix)

----------------------------------------------------------------------------
(* The tokens dependencies compute when they are constructed                *)
(* (lib/mesh.py, mesh/units.py, schema/schema.py).  Names, versions and    *)
(* tokens are strings, modelled as sequences of characters.                *)

\* dependencies constructed under SpecTokens
MaxDeclared == 2

\* 'a', 'a-b'
DepNameTexts == {<<"a">>, <<"a", "-", "b">>}
\* '1', 'b-1'
VersionTexts == {<<"1">>, <<"b", "-", "1">>}

\* the constructor calls: MeshDependency(name, version, intermediary) of
\* lib/mesh.py, MeshDependency(name, proxy, unit) of mesh/units.py and
\* SchemaDependency(schema)
DependencyCalls ==
    {[cls |-> "lib.MeshDependency", name |-> n, version |-> v,
      intermediary |-> i] :
        n \in DepNameTexts, v \in VersionTexts, i \in BOOLEAN}
    \cup {[cls |-> "units.MeshDependency", name |-> n, proxy |-> p,
           unit |-> u] :
        n \in DepNameTexts, p \in BOOLEAN, u \in {None, "CustomClient"}}
    \cup {[cls |-> "SchemaDependency", schema |-> n] : n \in DepNameTexts}

\* lib/mesh.py MeshDependency.__init__ and contribute
lib_MeshDependency(call) ==
    [call |-> call,
     unit |-> IF call.intermediary THEN "lib.MeshIntermediary"
              ELSE "lib.MeshClient",
     token |-> <<"m", "e", "s", "h", ":">> \o call.name \o <<"-">>
               \o call.version,
     params |-> [name |-> call.name, version |-> call.version]]

\* mesh/units.py MeshDependency.__init__ and contribute_params
units_MeshDependency(call) ==
    [call |-> call,
     unit |-> IF call.unit # None THEN call.unit
              ELSE IF call.proxy THEN "units.MeshProxy"
              ELSE "units.MeshClient",
     token |-> IF call.proxy
               THEN <<"m", "e", "s", "h", "-", "p", "r", "o", "x", "y", ":">>
                    \o call.name
               ELSE <<"m", "e", "s", "h", ":">> \o call.name,
     params |-> [name |-> call.name]]

\* schema/schema.py SchemaDependency.__init__ and contribute_params
SchemaDependency(call) ==
    [call |-> call,
     unit |-> "SchemaInterface",
     token |-> <<"s", "c", "h", "e", "m", "a", ":">> \o call.schema,
     params |-> [schema |-> call.schema]]

construct(call) ==
    IF call.cls = "lib.MeshDependency" THEN lib_MeshDependency(call)
    ELSE IF call.cls = "units.MeshDependency" THEN units_MeshDependency(call)
    ELSE SchemaDependency(call)

InitTokenVars == declared = <<>>

\* a dependency is constructed
Declare(call) ==
    /\ Len(declared) < MaxDeclared
    /\ declared' = Append(declared, construct(call))
    /\ UNCHANGED <<coreVars, exceptTokenVars>>

NextTokens == \E call \in DependencyCalls : Declare(call)

----------------------------------------------------------------------------
(* The daemon runtime (runtime/daemon.py): Runtime.__init__ deploys the    *)
(* units into the assembly, starts up, reads its configuration, looks up   *)
(* the daemon unit with collate and runs it.                               *)

\* the daemon configuration after SCHEMA.process and the params overrides:
\* the detached flag and whether 'pidfile' and 'uid' are present
DaemonConfigurations ==
    [detached : BOOLEAN, pidfile : BOOLEAN, uid : BOOLEAN]

NoConfiguration == [detached |-> FALSE, pidfile |-> FALSE, uid |-> FALSE]

InitBootVars ==
    boot = [pc |-> "deploy", events |-> <<>>, conf |-> NoConfiguration,
            found |-> {}, daemon |-> NoneUnit, error |-> None]

did(b, pc, event) == [b EXCEPT !.pc = pc, !.events = Append(@, event)]
abort(b, e) == [b EXCEPT !.pc = "aborted", !.error = e]

\* mutant of no_daemon: the result of the lookup is not tested
no_daemon_never(daemon) == FALSE

\* line 28: `if not self.daemon`
no_daemon(daemon) == daemon = NoneUnit

\* line 17, self.deploy(): a unit is instantiated into the assembly
DeployUnit(cl, deps) ==
    /\ boot.pc = "deploy"
    /\ CacheUnit(cl, deps)

\* line 17: self.deploy() returns
Deployed ==
    /\ boot.pc = "deploy"
    /\ boot' = did(boot, "startup", "deploy")
    /\ UNCHANGED <<coreVars, exceptBootVars>>

\* line 17: self.deploy() raises (a unit could not be constructed)
DeployFails ==
    /\ boot.pc = "deploy"
    /\ boot' = abort(boot, "ConstructionError")
    /\ UNCHANGED <<coreVars, exceptBootVars>>

\* line 18: self.startup()
Startup ==
    /\ boot.pc = "startup"
    /\ boot' = did(boot, "configure", "startup")
    /\ UNCHANGED <<coreVars, exceptBootVars>>

\* lines 20-25: the configuration is validated and overridden by params
ProcessConfiguration(conf) ==
    /\ boot.pc = "configure"
    /\ boot' = [did(boot, "lookup", "configure") EXCEPT !.conf = conf]
    /\ UNCHANGED <<coreVars, exceptBootVars>>

\* line 21: SCHEMA.process rejects the configuration
ConfigurationInvalid ==
    /\ boot.pc = "configure"
    /\ boot' = abort(boot, "ValidationError")
    /\ UNCHANGED <<coreVars, exceptBootVars>>

\* lines 27-29: the daemon unit is looked up
LookupDaemon ==
    /\ boot.pc = "lookup"
    /\ LET r == collate(units, "Daemon", TRUE)
           b == [did(boot, "detach", "lookup") EXCEPT !.found = r.units] IN
       boot' = IF r.outcome = "Exception" THEN abort(b, "Exception")
               ELSE IF no_daemon(r.unit) THEN abort(b, "no daemon component")
               ELSE [b EXCEPT !.daemon = r.unit]
    /\ UNCHANGED <<coreVars, exceptBootVars>>

\* lines 31-32
Detach ==
    /\ boot.pc = "detach"
    /\ boot' = IF boot.conf.detached THEN did(boot, "pidfile", "detach")
               ELSE [boot EXCEPT !.pc = "pidfile"]
    /\ UNCHANGED <<coreVars, exceptBootVars>>

\* lines 34-37
WritePidfile ==
    /\ boot.pc = "pidfile"
    /\ boot' = IF boot.conf.pidfile THEN did(boot, "switch_user", "pidfile")
               ELSE [boot EXCEPT !.pc = "switch_user"]
    /\ UNCHANGED <<coreVars, exceptBootVars>>

\* lines 39-40
SwitchUser ==
    /\ boot.pc = "switch_user"
    /\ boot' = IF boot.conf.uid THEN did(boot, "run", "switch_user")
               ELSE [boot EXCEPT !.pc = "run"]
    /\ UNCHANGED <<coreVars, exceptBootVars>>

\* line 42: self.daemon.run()
Run ==
    /\ boot.pc = "run"
    /\ boot' = did(boot, "running", "run")
    /\ UNCHANGED <<coreVars, exceptBootVars>>

NextDaemon ==
    \/ \E cl \in Classes : \E deps \in DependencyDicts(units) :
          DeployUnit(cl, deps)
    \/ Deployed
    \/ DeployFails
    \/ Startup
    \/ \E conf \in DaemonConfigurations : ProcessConfiguration(conf)
    \/ ConfigurationInvalid
    \/ LookupDaemon
    \/ Detach
    \/ WritePidfile
    \/ SwitchUser
    \/ Run

----------------------------------------------------------------------------
(* Threads calling acquire, get_configuration and configure on the         *)
(* standard assembly.  An instantiator may call acquire, get_configuration *)
(* or configure itself, so every thread has a stack of the calls it is     *)
(* inside of; the guard is reentrant.                                      *)

\* calls made, by all threads together, under SpecGuard
MaxGuardCalls == 3
\* depth of the calls a thread is inside of
MaxNest == 2

\* the mappings passed to configure under SpecGuard
GuardInputs == UNION {[{t} -> SharedDataInputs] : t \in Tokens}

\* the instance an instantiator returns under SpecGuard
NewInstance == 1
\* the key acquire is called with under SpecGuard
GuardKeys == {identity("U1")}
\* the exception an instantiator raises under SpecGuard
GuardExceptions == {"E1"}

\* the hold count of th on the guard g
Held(g, th) == IF g.owner = th THEN g.count ELSE 0

\* a call of op just entered, with the hold count of the caller at entry
Frame(op, key, held) ==
    [op |-> op, pc |-> "guard", key |-> key, held |-> held, exc |-> None,
     instance |-> 0]

Top(th) == stack[th][Len(stack[th])]
InFrame(th, op, pc) ==
    stack[th] # <<>> /\ Top(th).op = op /\ Top(th).pc = pc
SetTop(th, f) == [stack EXCEPT ![th] = [@ EXCEPT ![Len(@)] = f]]
Push(th, f) == [stack EXCEPT ![th] = Append(@, f)]
Pop(th) == [stack EXCEPT ![th] = SubSeq(@, 1, Len(@) - 1)]

\* th is outside every call, or inside an instantiator that makes a call
CanCall(th) ==
    /\ gcalls < MaxGuardCalls
    /\ \/ stack[th] = <<>>
       \/ Len(stack[th]) < MaxNest /\ InFrame(th, "acquire", "construct")

NoExit == [n |-> 0, th |-> 0, op |-> "none", outcome |-> "none",
           before |-> 0, after |-> 0]
NoWrite == [th |-> 0, what |-> "none", held |-> TRUE]

\* th leaves the call f with the guard g: the exits are numbered
Left(th, f, g) ==
    [n |-> exits.n + 1, th |-> th, op |-> f.op,
     outcome |-> IF f.exc # None THEN f.exc ELSE "return",
     before |-> f.held, after |-> Held(g, th)]

\* th writes one of the three mappings
Write(th, what) ==
    [th |-> th, what |-> what, held |-> Held(guard[standard], th) > 0]

InitGuardVars ==
    /\ stack = [th \in Threads |-> <<>>]
    /\ exits = NoExit
    /\ written = NoWrite
    /\ gcalls = 0

\* acquire(key, instantiator, arguments) is called
EnterAcquire(th, key) ==
    /\ CanCall(th)
    /\ stack' = Push(th, Frame("acquire", key, Held(guard[standard], th)))
    /\ gcalls' = gcalls + 1
    /\ UNCHANGED <<exits, written, cfgVars, localVars, acqVars,
                   exceptGuardVars>>

\* get_configuration(token) is called; lines 96-99: the token is looked up
\* without the guard, and the call returns when it is resolved already
EnterGetConfiguration(th, token) ==
    /\ CanCall(th)
    /\ LET f == Frame("get_configuration", token, Held(guard[standard], th)) IN
       IF token \in DOMAIN configuration
       THEN /\ exits' = Left(th, f, guard[standard])
            /\ UNCHANGED stack
       ELSE /\ stack' = Push(th, f)
            /\ UNCHANGED exits
    /\ gcalls' = gcalls + 1
    /\ UNCHANGED <<written, cfgVars, localVars, acqVars, exceptGuardVars>>

\* configure(input) is called and runs: it takes no guard
ThreadConfigure(th, input, order) ==
    /\ CanCall(th)
    /\ LET r == configure(configuration, pending, schemas, input, order) IN
        /\ configuration' = r.configuration
        /\ pending' = r.pending
        /\ written' = IF r.configuration # configuration
                      THEN Write(th, "configuration")
                      ELSE IF r.pending # pending THEN Write(th, "pending")
                      ELSE written
    /\ gcalls' = gcalls + 1
    /\ UNCHANGED <<stack, exits, schemas, last, ncalls, localVars, acqVars,
                   exceptGuardVars>>

\* self.guard.acquire(), in acquire (line 38) and get_configuration (101)
TakeGuard(th) ==
    /\ stack[th] # <<>>
    /\ Top(th).pc = "guard"
    /\ guard_available(guard[standard], th)
    /\ guard' = [guard EXCEPT ![standard] =
                    [owner |-> th, count |-> @.count + 1]]
    /\ stack' = SetTop(th, [Top(th) EXCEPT !.pc =
                    IF Top(th).op = "acquire" THEN "lookup" ELSE "resolve"])
    /\ UNCHANGED <<exits, written, gcalls, cfgVars, localVars,
                   cache, thread, ret, invoked, failed, tcalls,
                   exceptGuardVars>>

\* acquire: try: return self.cache[key]; except KeyError: instantiate
CacheLookup(th) ==
    /\ InFrame(th, "acquire", "lookup")
    /\ LET k == Top(th).key IN
        IF k \in DOMAIN cache[standard]
        THEN stack' = SetTop(th, [Top(th) EXCEPT !.pc = "release",
                                     !.instance = cache[standard][k]])
        ELSE stack' = SetTop(th, [Top(th) EXCEPT !.pc = "construct"])
    /\ UNCHANGED <<exits, written, gcalls, cfgVars, localVars, acqVars,
                   exceptGuardVars>>

\* acquire: the instantiator returns and the instance is stored
InstantiatorReturns(th) ==
    /\ InFrame(th, "acquire", "construct")
    /\ LET k == Top(th).key
           new == NewInstance IN
        /\ cache' = [cache EXCEPT ![standard] =
                        [kk \in DOMAIN @ \cup {k} |->
                            IF kk = k THEN new ELSE @[kk]]]
        /\ stack' = SetTop(th, [Top(th) EXCEPT !.pc = "release",
                                               !.instance = new])
    /\ written' = Write(th, "cache")
    /\ UNCHANGED <<exits, gcalls, cfgVars, localVars,
                   guard, thread, ret, invoked, failed, tcalls,
                   exceptGuardVars>>

\* acquire: the instantiator raises e
InstantiatorRaises(th, e) ==
    /\ InFrame(th, "acquire", "construct")
    /\ stack' = SetTop(th, [Top(th) EXCEPT !.pc = "release", !.exc = e])
    /\ UNCHANGED <<exits, written, gcalls, cfgVars, localVars, acqVars,
                   exceptGuardVars>>

\* get_configuration, lines 103-108: the loop over pending.keys(), which
\* rebinds token; schema.process may raise
ResolvePending(th, order) ==
    /\ InFrame(th, "get_configuration", "resolve")
    /\ LET st == resolve_loop([configuration |-> configuration,
                               pending |-> pending,
                               token |-> Top(th).key, raised |-> FALSE],
                              schemas, order, 1) IN
        /\ configuration' = st.configuration
        /\ pending' = st.pending
        /\ stack' = SetTop(th, [Top(th) EXCEPT !.pc = "release",
                        !.key = st.token,
                        !.exc = IF st.raised THEN "ValidationError" ELSE None])
        /\ written' = IF st.pending # pending THEN Write(th, "pending")
                      ELSE written
    /\ UNCHANGED <<exits, gcalls, schemas, last, ncalls, localVars, acqVars,
                   exceptGuardVars>>

\* mutant of ReleaseGuard: the release is not in a finally clause, so a call
\* that raises leaves with the guard held
ReleaseGuard_unless_raised(th) ==
    /\ stack[th] # <<>>
    /\ Top(th).pc = "release"
    /\ LET n == IF Top(th).exc # None THEN guard[standard].count
                ELSE guard[standard].count - 1
           g == [owner |-> IF n = 0 THEN 0 ELSE guard[standard].owner,
                 count |-> n] IN
        /\ guard' = [guard EXCEPT ![standard] = g]
        /\ IF Top(th).op = "acquire" \/ Top(th).exc # None
           THEN /\ stack' = Pop(th)
                /\ exits' = Left(th, Top(th), g)
           ELSE /\ stack' = SetTop(th, [Top(th) EXCEPT !.pc = "final"])
                /\ UNCHANGED exits
    /\ UNCHANGED <<written, gcalls, cfgVars, localVars,
                   cache, thread, ret, invoked, failed, tcalls,
                   exceptGuardVars>>

\* finally: self.guard.release() (lines 45-46 and 109-110); acquire then
\* returns or re-raises, get_configuration re-raises or goes on to line 112
ReleaseGuard(th) ==
    /\ stack[th] # <<>>
    /\ Top(th).pc = "release"
    /\ LET n == guard[standard].count - 1
           g == [owner |-> IF n = 0 THEN 0 ELSE guard[standard].owner,
                 count |-> n] IN
        /\ guard' = [guard EXCEPT ![standard] = g]
        /\ IF Top(th).op = "acquire" \/ Top(th).exc # None
           THEN /\ stack' = Pop(th)
                /\ exits' = Left(th, Top(th), g)
           ELSE /\ stack' = SetTop(th, [Top(th) EXCEPT !.pc = "final"])
                /\ UNCHANGED exits
    /\ UNCHANGED <<written, gcalls, cfgVars, localVars,
                   cache, thread, ret, invoked, failed, tcalls,
                   exceptGuardVars>>

\* get_configuration, line 112: return self.configuration[token], with the
\* guard released
FinalLookup(th) ==
    /\ InFrame(th, "get_configuration", "final")
    /\ stack' = Pop(th)
    /\ exits' = Left(th, [Top(th) EXCEPT !.exc =
                    IF Top(th).key \in DOMAIN configuration THEN None
                    ELSE "KeyError"], guard[standard])
    /\ UNCHANGED <<written, gcalls, cfgVars, localVars, acqVars,
                   exceptGuardVars>>

\* a schema is registered for token t
GuardRegisterSchema(t) ==
    /\ t \notin schemas
    /\ schemas' = schemas \cup {t}
    /\ UNCHANGED <<configuration, pending, last, ncalls, localVars, acqVars,
                   extVars>>

NextGuard ==
    \/ \E t \in Tokens : GuardRegisterSchema(t)
    \/ \E th \in Threads, key \in GuardKeys : EnterAcquire(th, key)
    \/ \E th \in Threads, token \in Tokens : EnterGetConfiguration(th, token)
    \/ \E th \in Threads, input \in GuardInputs :
          \E order \in Orders(DOMAIN input) : ThreadConfigure(th, input, order)
    \/ \E th \in Threads : TakeGuard(th)
    \/ \E th \in Threads : CacheLookup(th)
    \/ \E th \in Threads : InstantiatorReturns(th)
    \/ \E th \in Threads, e \in GuardExceptions : InstantiatorRaises(th, e)
    \/ \E th \in Threads : \E order \in Orders(DOMAIN pending) :
          ResolvePending(th, order)
    \/ \E th \in Threads : ReleaseGuard(th)
    \/ \E th \in Threads : FinalLookup(th)

----------------------------------------------------------------------------
(* Resolving a schema dependency (schema/schema.py): Schema.interface(name) *)
(* is SchemaDependency(name).get(), which asks the current assembly of the *)
(* thread for the SchemaInterface cached under the dependency's token and  *)
(* has it constructed, from the assembly's configuration of that token,    *)
(* when it is not cached.  One thread is modelled; every assembly has its  *)
(* own configuration, pending and cache.                                   *)

\* calls made under SpecDependency
MaxDepCalls == 4

\* the thread that promotes, configures and resolves
Caller == 1

\* 'example', 'other'
SchemaNames == {<<"e", "x", "a", "m", "p", "l", "e">>,
                <<"o", "t", "h", "e", "r">>}

SchemaCall(name) == [cls |-> "SchemaDependency", schema |-> name]
SchemaToken(name) == SchemaDependency(SchemaCall(name)).token

\* the urls configured: {'url': 1}, {'url': 2}
UrlInputs == {Map(Dict1("url", Leaf(1))), Map(Dict1("url", Leaf(2)))}

\* the mappings passed to configure: {'schema:<name>': {'url': u}}
SchemaInputs ==
    UNION {[{SchemaToken(name)} -> UrlInputs] : name \in SchemaNames}

\* given: what was passed to configure, merged; times: the configure calls
NoConfigs == [configuration |-> EmptyDict, pending |-> EmptyDict,
              given |-> EmptyDict, times |-> 0]
NoResolution == [n |-> 0, name |-> <<>>, asm |-> None, outcome |-> "none",
                 instance |-> [id |-> 0]]

InitDepVars ==
    /\ configs = [a \in AcquireAssemblies |-> NoConfigs]
    /\ resolved = NoResolution
    /\ dcalls = 0

\* the instances constructed so far, in all assemblies
Instances(c) == UNION {{c[a][k] : k \in DOMAIN c[a]} : a \in DOMAIN c}

\* SchemaInterface.__init__(schema, url), line 101: the schema must exist
SchemaInterface(id, a, name, conf, sch) ==
    IF SchemaToken(name) \notin sch
    THEN [outcome |-> "KeyError", instance |-> [id |-> 0]]
    ELSE [outcome |-> "return",
          instance |-> [id |-> id, cls |-> "SchemaInterface", asm |-> a,
                        schema |-> name, url |-> conf.map["url"]]]

\* SchemaDependency(name).get() with the thread's slot: the assembly a is
\* current(); acquire(token, ...) returns the cached instance or has the
\* unit constructed from get_configuration(token)
dependency_get(slot, c, cfgs, sch, name, order) ==
    LET a == current(slot)
        token == SchemaToken(name)
    IN  IF token \in DOMAIN c[a]
        THEN [asm |-> a, cache |-> c, configs |-> cfgs, outcome |-> "return",
              instance |-> c[a][token]]
        ELSE LET r == get_configuration(cfgs[a].configuration,
                                        cfgs[a].pending, sch, token, order)
                 cfgs1 == [cfgs EXCEPT ![a].configuration = r.configuration,
                                       ![a].pending = r.pending]
                 made == SchemaInterface(Cardinality(Instances(c)) + 1, a,
                                         name, r.value, sch)
             IN  IF r.outcome # "return"
                 THEN [asm |-> a, cache |-> c, configs |-> cfgs1,
                       outcome |-> r.outcome, instance |-> [id |-> 0]]
                 ELSE IF made.outcome # "return"
                 THEN [asm |-> a, cache |-> c, configs |-> cfgs1,
                       outcome |-> made.outcome, instance |-> [id |-> 0]]
                 ELSE [asm |-> a,
                       cache |-> [c EXCEPT ![a] =
                                    [k \in DOMAIN @ \cup {token} |->
                                        IF k = token THEN made.instance
                                        ELSE @[k]]],
                       configs |-> cfgs1, outcome |-> "return",
                       instance |-> made.instance]

\* Assembly().promote(), as in the test's setUp
DepPromote(a) ==
    /\ dcalls < MaxDepCalls
    /\ local' = [local EXCEPT ![Caller] = promote(@, a)]
    /\ dcalls' = dcalls + 1
    /\ UNCHANGED <<configs, resolved, scopes, lastLocal, nlocal, cfgVars,
                   acqVars, exceptDepVars>>

\* assembly.demote(), as in the test's tearDown
DepDemote(a) ==
    /\ dcalls < MaxDepCalls
    /\ local' = [local EXCEPT ![Caller] = demote(@, a)]
    /\ dcalls' = dcalls + 1
    /\ UNCHANGED <<configs, resolved, scopes, lastLocal, nlocal, cfgVars,
                   acqVars, exceptDepVars>>

\* a.configure(input)
DepConfigure(a, input, order) ==
    /\ dcalls < MaxDepCalls
    /\ LET r == configure(configs[a].configuration, configs[a].pending,
                          schemas, input, order) IN
       configs' = [configs EXCEPT ![a] =
                      [configuration |-> r.configuration,
                       pending |-> r.pending,
                       given |-> recursive_merge(@.given, input),
                       times |-> @.times + 1]]
    /\ dcalls' = dcalls + 1
    /\ UNCHANGED <<resolved, cfgVars, localVars, acqVars, exceptDepVars>>

\* Schema(name) is created, line 73: SchemaDependency.register(name)
\* registers the configuration schema of its token
SchemaCreated(name) ==
    /\ SchemaToken(name) \notin schemas
    /\ schemas' = schemas \cup {SchemaToken(name)}
    /\ UNCHANGED <<configuration, pending, last, ncalls, localVars, acqVars,
                   extVars>>

\* Schema.interface(name)
Interface(name, order) ==
    /\ dcalls < MaxDepCalls
    /\ LET r == dependency_get(local[Caller], cache, configs, schemas, name,
                               order) IN
        /\ cache' = r.cache
        /\ configs' = r.configs
        /\ resolved' = [n |-> resolved.n + 1, name |-> name, asm |-> r.asm,
                        outcome |-> r.outcome, instance |-> r.instance]
    /\ dcalls' = dcalls + 1
    /\ UNCHANGED <<guard, thread, ret, invoked, failed, tcalls, cfgVars,
                   localVars, exceptDepVars>>

NextDependency ==
    \/ \E a \in AcquireAssemblies : DepPromote(a)
    \/ \E a \in AcquireAssemblies : DepDemote(a)
    \/ \E a \in AcquireAssemblies, input \in SchemaInputs :
          \E order \in Orders(DOMAIN input) : DepConfigure(a, input, order)
    \/ \E name \in SchemaNames : SchemaCreated(name)
    \/ \E name \in SchemaNames :
          \E order \in Orders(DOMAIN configs[current(local[Caller])].pending) :
              Interface(name, order)

----------------------------------------------------------------------------
(* Repeated configuration of one key: configure calls that set a scalar at *)
(* key x of a token, before or after the token's schema is registered, and *)
(* get_configuration calls for any token.                                  *)

MaxLaterCalls == 4

\* the valid scalars configure is called with
LaterValues == {1, 2}

InitLaterVars == latest = [t \in Tokens |-> 0]

\* assembly.configure({token: {'x': v}})
LaterConfigure(token, v) ==
    /\ ncalls < MaxLaterCalls
    /\ LET input == Dict1(token, Map(Dict1("x", Leaf(v))))
           r == configure(configuration, pending, schemas, input, <<token>>) IN
        /\ configuration' = r.configuration
        /\ pending' = r.pending
        /\ last' = [NoCall EXCEPT !.op = "configure", !.input = input]
    /\ latest' = [latest EXCEPT ![token] = v]
    /\ ncalls' = ncalls + 1
    /\ UNCHANGED <<schemas, localVars, acqVars, exceptLaterVars>>

\* a schema for token t is declared between two calls
LaterRegisterSchema(t) ==
    /\ t \notin schemas
    /\ schemas' = schemas \cup {t}
    /\ last' = [NoCall EXCEPT !.op = "register", !.token = t]
    /\ UNCHANGED <<configuration, pending, ncalls, latest,
                   localVars, acqVars, exceptLaterVars>>

\* assembly.get_configuration(token)
LaterGetConfiguration(token, order) ==
    /\ ncalls < MaxLaterCalls
    /\ LET r == get_configuration(configuration, pending, schemas, token, order) IN
        /\ configuration' = r.configuration
        /\ pending' = r.pending
        /\ last' = [NoCall EXCEPT !.op = "get_configuration", !.token = token,
                        !.outcome = r.outcome, !.value = r.value,
                        !.moved = DOMAIN pending \ DOMAIN r.pending]
    /\ ncalls' = ncalls + 1
    /\ UNCHANGED <<schemas, latest, localVars, acqVars, exceptLaterVars>>

NextLater ==
    \/ \E t \in Tokens : \E v \in LaterValues : LaterConfigure(t, v)
    \/ \E t \in Tokens : LaterRegisterSchema(t)
    \/ \E token \in Tokens : \E order \in Orders(DOMAIN pending) :
          LaterGetConfiguration(token, order)

----------------------------------------------------------------------------
(* Nested acquire calls with distinguishable instances: an instantiator    *)
(* may call acquire on the same assembly, for any key, before it returns.  *)
(* Every invocation of the instantiator of a key builds a new instance,    *)
(* named by the number of the invocation.                                  *)

\* th calls acquire(key, ...), from outside or from inside an instantiator
NestedAcquire(th, key) ==
    /\ CanCall(th)
    /\ stack' = Push(th, Frame("acquire", key, Held(guard[standard], th)))
    /\ gcalls' = gcalls + 1
    /\ UNCHANGED <<exits, written, cfgVars, localVars, acqVars, exceptGuardVars>>

\* try: return self.cache[key]; except KeyError: the instantiator is called
NestedLookup(th) ==
    /\ InFrame(th, "acquire", "lookup")
    /\ LET k == Top(th).key IN
        IF k \in DOMAIN cache[standard]
        THEN /\ stack' = SetTop(th, [Top(th) EXCEPT !.pc = "release",
                                                    !.instance = cache[standard][k]])
             /\ UNCHANGED invoked
        ELSE /\ invoked' = [invoked EXCEPT ![standard][k] = @ + 1]
             /\ stack' = SetTop(th, [Top(th) EXCEPT !.pc = "construct",
                                                    !.instance = invoked[standard][k] + 1])
    /\ UNCHANGED <<exits, written, gcalls, cfgVars, localVars,
                   cache, guard, thread, ret, failed, tcalls, exceptGuardVars>>

\* instance = self.cache[key] = instantiator(*arguments): the instantiator
\* returns the instance it built, which is stored under key
NestedStore(th) ==
    /\ InFrame(th, "acquire", "construct")
    /\ LET k == Top(th).key IN
        cache' = [cache EXCEPT ![standard] =
                    [kk \in DOMAIN @ \cup {k} |->
                        IF kk = k THEN Top(th).instance ELSE @[kk]]]
    /\ stack' = SetTop(th, [Top(th) EXCEPT !.pc = "release"])
    /\ UNCHANGED <<exits, written, gcalls, cfgVars, localVars,
                   guard, thread, ret, invoked, failed, tcalls, exceptGuardVars>>

\* the instantiator raises: nothing is stored
NestedRaise(th, e) ==
    /\ InFrame(th, "acquire", "construct")
    /\ stack' = SetTop(th, [Top(th) EXCEPT !.pc = "release", !.exc = e,
                                           !.instance = 0])
    /\ UNCHANGED <<exits, written, gcalls, cfgVars, localVars, acqVars,
                   exceptGuardVars>>

\* finally: self.guard.release() (lines 45-46 and 109-110); acquire then
\* returns or re-raises, get_configuration re-raises or goes on to line 112
NestedRelease(th) ==
    /\ stack[th] # <<>>
    /\ Top(th).pc = "release"
    /\ LET n == guard[standard].count - 1 IN
        guard' = [guard EXCEPT ![standard] =
                    [owner |-> IF n = 0 THEN 0 ELSE @.owner, count |-> n]]
    /\ stack' = IF Top(th).op = "acquire" \/ Top(th).exc # None
                THEN Pop(th)
                ELSE SetTop(th, [Top(th) EXCEPT !.pc = "final"])
    /\ UNCHANGED <<exits, written, gcalls, cfgVars, localVars,
                   cache, thread, ret, invoked, failed, tcalls, exceptGuardVars>>

NextNested ==
    \/ \E th \in Threads, key \in Keys : NestedAcquire(th, key)
    \/ \E th \in Threads : TakeGuard(th)
    \/ \E th \in Threads : NestedLookup(th)
    \/ \E th \in Threads : NestedStore(th)
    \/ \E th \in Threads, e \in GuardExceptions : NestedRaise(th, e)
    \/ \E th \in Threads : NestedRelease(th)

----------------------------------------------------------------------------
(* Calls made from inside an instantiator, under fair scheduling: nested   *)
(* acquire calls for any key and nested get_configuration calls, with      *)
(* pending data to resolve.                                                *)

\* the state after configure({'a': {'x': 1}, 'b': {'x': <rejected>}}) was
\* called before any schema existed and both schemas were registered since
InitPendingCfgVars ==
    /\ configuration = EmptyDict
    /\ pending = [t \in Tokens |->
                    Map(Dict1("x", Leaf(IF t = "a" THEN 1 ELSE BadScalar)))]
    /\ schemas = Tokens
    /\ last = NoCall
    /\ ncalls = 0

\* th calls get_configuration(token), from outside or from inside an
\* instantiator; lines 96-99: the call returns at once when the token is
\* resolved already
NestedGetConfiguration(th, token) ==
    /\ CanCall(th)
    /\ stack' = IF token \in DOMAIN configuration THEN stack
                ELSE Push(th, Frame("get_configuration", token,
                                    Held(guard[standard], th)))
    /\ gcalls' = gcalls + 1
    /\ UNCHANGED <<exits, written, cfgVars, localVars, acqVars, exceptGuardVars>>

\* line 112: return self.configuration[token], or a KeyError
NestedFinalLookup(th) ==
    /\ InFrame(th, "get_configuration", "final")
    /\ stack' = Pop(th)
    /\ UNCHANGED <<exits, written, gcalls, cfgVars, localVars, acqVars,
                   exceptGuardVars>>

\* the step thread th takes next inside a call, when it is not blocked: the
\* scheduler runs every thread that can run, every instantiator ends
Running(th) ==
    \/ TakeGuard(th)
    \/ NestedLookup(th)
    \/ NestedStore(th)
    \/ \E e \in GuardExceptions : NestedRaise(th, e)
    \/ NestedRelease(th)
    \/ \E order \in Orders(DOMAIN pending) : ResolvePending(th, order)
    \/ NestedFinalLookup(th)

NextReentrant ==
    \/ \E th \in Threads, key \in Keys : NestedAcquire(th, key)
    \/ \E th \in Threads, token \in Tokens : NestedGetConfiguration(th, token)
    \/ \E th \in Threads : Running(th)

----------------------------------------------------------------------------
(* The engine cache of one SchemaInterface (schema/schema.py):             *)
(* _acquire_engine, _construct_url, _create_engine and purge, called by    *)
(* threads.  Engines are numbered in the order of their creation: engine i *)
(* was created for the URL engines[i].  An engine stands for the pair      *)
(* (engine, sessions) that _create_engine returns: the session factory is  *)
(* made with its engine and bound to it.                                   *)

\* calls of _acquire_engine and purge
MaxEngineCalls == 3

\* self.url, with one placeholder ("%")
UrlTemplate == <<"d", "b", "%">>

\* the tokens passed to _acquire_engine: none, or a value for the placeholder
EngineTokens == {None, "1"}

\* SchemaInterface._construct_url: url % tokens when tokens are given
construct_url(tokens) ==
    IF tokens # None
    THEN [i \in 1..Len(UrlTemplate) |->
              IF UrlTemplate[i] = "%" THEN tokens ELSE UrlTemplate[i]]
    ELSE UrlTemplate

\* mutant of in_cache: the cache is not looked at again under the guard
in_cache_never(c, url) == FALSE

\* line 249: url in self.cache
in_cache(c, url) == url \in DOMAIN c

\* call: the number of the call; missed: the lookup made without the guard
\* found nothing; todo: the engines purge has yet to dispose
EngineIdle == [pc |-> "idle", op |-> "none", call |-> 0, url |-> <<>>, got |-> 0,
               missed |-> FALSE, todo |-> {}]

InitEngineVars ==
    /\ ecache = [u \in {} |-> 0]
    /\ eguard = 0
    /\ ethread = [th \in Threads |-> EngineIdle]
    /\ engines = <<>>
    /\ disposed = {}
    /\ ecalls = 0

\* th calls _acquire_engine(tokens); lines 241-245: the URL is looked up
\* without the guard, and the call returns what it finds
AcquireEngine(th, tokens) ==
    /\ ethread[th].pc = "idle"
    /\ ecalls < MaxEngineCalls
    /\ LET url == construct_url(tokens)
           f == [EngineIdle EXCEPT !.op = "acquire_engine", !.call = ecalls + 1,
                                   !.url = url] IN
        ethread' = [ethread EXCEPT ![th] =
            IF url \in DOMAIN ecache
            THEN [f EXCEPT !.got = ecache[url]]
            ELSE [f EXCEPT !.pc = "guard", !.missed = TRUE]]
    /\ ecalls' = ecalls + 1
    /\ UNCHANGED <<ecache, eguard, engines, disposed, coreVars, exceptEngineVars>>

\* th calls purge()
Purge(th) ==
    /\ ethread[th].pc = "idle"
    /\ ecalls < MaxEngineCalls
    /\ ethread' = [ethread EXCEPT ![th] =
            [EngineIdle EXCEPT !.pc = "guard", !.op = "purge", !.call = ecalls + 1]]
    /\ ecalls' = ecalls + 1
    /\ UNCHANGED <<ecache, eguard, engines, disposed, coreVars, exceptEngineVars>>

\* self.guard.acquire() (lines 228 and 247): a Lock, free or not; purge then
\* starts to iterate over the cached values
EngineGuardAcquire(th) ==
    /\ ethread[th].pc = "guard"
    /\ eguard = 0
    /\ eguard' = th
    /\ ethread' = [ethread EXCEPT ![th] =
            IF @.op = "purge"
            THEN [@ EXCEPT !.pc = "dispose",
                           !.todo = {ecache[u] : u \in DOMAIN ecache}]
            ELSE [@ EXCEPT !.pc = "check"]]
    /\ UNCHANGED <<ecache, engines, disposed, ecalls, coreVars, exceptEngineVars>>

\* lines 249-250: the cache is looked at again, with the guard held
CheckCache(th) ==
    /\ ethread[th].pc = "check"
    /\ LET url == ethread[th].url IN
        ethread' = [ethread EXCEPT ![th] =
            IF in_cache(ecache, url)
            THEN [@ EXCEPT !.pc = "release", !.got = ecache[url]]
            ELSE [@ EXCEPT !.pc = "create"]]
    /\ UNCHANGED <<ecache, eguard, engines, disposed, ecalls, coreVars,
                   exceptEngineVars>>

\* lines 252-254: a new engine and session factory are created and cached
CreateEngine(th) ==
    /\ ethread[th].pc = "create"
    /\ LET url == ethread[th].url
           new == Len(engines) + 1 IN
        /\ engines' = Append(engines, url)
        /\ ecache' = [u \in DOMAIN ecache \cup {url} |->
                          IF u = url THEN new ELSE ecache[u]]
        /\ ethread' = [ethread EXCEPT ![th].pc = "release", ![th].got = new]
    /\ UNCHANGED <<eguard, disposed, ecalls, coreVars, exceptEngineVars>>

\* purge, lines 230-231: the next cached engine is disposed
Dispose(th, e) ==
    /\ ethread[th].pc = "dispose"
    /\ e \in ethread[th].todo
    /\ disposed' = disposed \cup {e}
    /\ ethread' = [ethread EXCEPT ![th].todo = @ \ {e}]
    /\ UNCHANGED <<ecache, eguard, engines, ecalls, coreVars, exceptEngineVars>>

\* purge, line 232: self.cache = {}, after the loop
ClearCache(th) ==
    /\ ethread[th].pc = "dispose"
    /\ ethread[th].todo = {}
    /\ ecache' = [u \in {} |-> 0]
    /\ ethread' = [ethread EXCEPT ![th].pc = "release"]
    /\ UNCHANGED <<eguard, engines, disposed, ecalls, coreVars, exceptEngineVars>>

\* finally: self.guard.release() (lines 233-234 and 255-256); the call returns
EngineGuardRelease(th) ==
    /\ ethread[th].pc = "release"
    /\ eguard' = 0
    /\ ethread' = [ethread EXCEPT ![th].pc = "idle"]
    /\ UNCHANGED <<ecache, engines, disposed, ecalls, coreVars, exceptEngineVars>>

\* _acquire_engine alone
NextEngine ==
    \/ \E th \in Threads, tokens \in EngineTokens : AcquireEngine(th, tokens)
    \/ \E th \in Threads : EngineGuardAcquire(th)
    \/ \E th \in Threads : CheckCache(th)
    \/ \E th \in Threads : CreateEngine(th)
    \/ \E th \in Threads : EngineGuardRelease(th)

\* _acquire_engine and purge
NextPurge ==
    \/ NextEngine
    \/ \E th \in Threads : Purge(th)
    \/ \E th \in Threads : \E e \in ethread[th].todo : Dispose(th, e)
    \/ \E th \in Threads : ClearCache(th)

----------------------------------------------------------------------------
(* EnhancedSession (schema/schema.py): call_after_commit, commit, rollback *)
(* and close of one session.  Callbacks are numbered in the order of their *)
(* registration.  The attribute _call_after_commit is either absent or a   *)
(* non-empty list, so the empty sequence stands for the absent attribute.  *)

\* callbacks registered on the session
MaxCallbacks == 3

\* commit, rollback and close calls
MaxSessionOps == 3

\* no commit is running its callbacks
NoLoop == [current |-> 0, rest |-> <<>>]

\* epochs: per callback, the number of successful commits before it was
\* registered; invoked: the callbacks invoked, in order, each with the
\* number of the commit that invoked it
InitSessionVars ==
    /\ callbacks = <<>>
    /\ loop = NoLoop
    /\ history = [epochs |-> <<>>, invoked |-> <<>>, discarded |-> {},
                  commits |-> 0, ops |-> 0]

\* the commit loop starts running the first of calls, if there is one
run(calls, h) ==
    [loop |-> IF calls = <<>> THEN NoLoop
              ELSE [current |-> Head(calls), rest |-> Tail(calls)],
     invoked |-> IF calls = <<>> THEN h.invoked
                 ELSE Append(h.invoked, [id |-> Head(calls), commit |-> h.commits])]

\* session.call_after_commit(function), called between the session's other
\* calls or by a callback that a commit is running
CallAfterCommit ==
    /\ Len(history.epochs) < MaxCallbacks
    /\ callbacks' = Append(callbacks, Len(history.epochs) + 1)
    /\ history' = [history EXCEPT !.epochs = Append(@, history.commits)]
    /\ UNCHANGED <<loop, coreVars, exceptSessionVars>>

\* session.commit(), Session.commit succeeds: the registered callbacks are
\* taken off the session and the first of them is called
Commit ==
    /\ loop = NoLoop
    /\ history.ops < MaxSessionOps
    /\ LET h == [history EXCEPT !.commits = @ + 1, !.ops = @ + 1]
           r == run(callbacks, h) IN
        /\ loop' = r.loop
        /\ history' = [h EXCEPT !.invoked = r.invoked]
    /\ callbacks' = <<>>
    /\ UNCHANGED <<coreVars, exceptSessionVars>>

\* session.commit(), Session.commit raises: line 39 propagates it
CommitFails ==
    /\ loop = NoLoop
    /\ history.ops < MaxSessionOps
    /\ history' = [history EXCEPT !.ops = @ + 1]
    /\ UNCHANGED <<callbacks, loop, coreVars, exceptSessionVars>>

\* the callback the commit is running returns: the next one is called, or
\* commit returns
CallbackReturns ==
    /\ loop # NoLoop
    /\ LET r == run(loop.rest, history) IN
        /\ loop' = r.loop
        /\ history' = [history EXCEPT !.invoked = r.invoked]
    /\ UNCHANGED <<callbacks, coreVars, exceptSessionVars>>

\* the callback the commit is running raises: the exception leaves the loop
\* of lines 47-48 and commit
CallbackRaises ==
    /\ loop # NoLoop
    /\ loop' = NoLoop
    /\ UNCHANGED <<callbacks, history, coreVars, exceptSessionVars>>

\* session.rollback() or session.close(): the attribute is deleted
Discard(how) ==
    /\ loop = NoLoop
    /\ history.ops < MaxSessionOps
    /\ callbacks' = <<>>
    /\ history' = [history EXCEPT !.ops = @ + 1,
                      !.discarded = @ \cup {callbacks[i] : i \in 1..Len(callbacks)}]
    /\ UNCHANGED <<loop, coreVars, exceptSessionVars>>

NextSession ==
    \/ CallAfterCommit
    \/ Commit
    \/ CommitFails
    \/ CallbackReturns
    \/ CallbackRaises
    \/ \E how \in {"rollback", "close"} : Discard(how)

----------------------------------------------------------------------------
\* the values the variables of the other parts have while one part runs
InitExtVars ==
    /\ InitUnitVars /\ InitFilterVars /\ InitTokenVars /\ InitBootVars
    /\ InitGuardVars /\ InitDepVars /\ InitLaterVars
    /\ InitEngineVars /\ InitSessionVars

----------------------------------------------------------------------------
(* Specifications *)

InitConfig == InitCfgVars /\ InitLocalVars /\ InitAcqVars /\ InitExtVars
Init == InitCfgVarsNoSchema /\ InitLocalVars /\ InitAcqVars /\ InitExtVars

SpecConfig == InitConfig /\ [][NextConfig]_vars
SpecLocal == Init /\ [][NextLocal]_vars
SpecAcquire == Init /\ [][NextAcquire]_vars
SpecCollate == Init /\ [][NextCollate]_vars

InitFilter == InitFilterCfg /\ InitLocalVars /\ InitAcqVars /\ InitExtVars
SpecFilter == InitFilter /\ [][NextFilter]_vars
SpecTokens == Init /\ [][NextTokens]_vars
SpecDaemon == Init /\ [][NextDaemon]_vars
SpecGuard == Init /\ [][NextGuard]_vars
SpecDependency == Init /\ [][NextDependency]_vars
SpecLater == Init /\ [][NextLater]_vars
SpecNested == Init /\ [][NextNested]_vars
SpecEngine == Init /\ [][NextEngine]_vars
SpecPurge == Init /\ [][NextPurge]_vars
SpecSession == Init /\ [][NextSession]_vars

\* every thread that can take a step inside a call eventually takes one
InitReentrant == InitPendingCfgVars /\ InitLocalVars /\ InitAcqVars /\ InitExtVars
SpecReentrant ==
    InitReentrant /\ [][NextReentrant]_vars /\ \A th \in Threads : WF_vars(Running(th))

----------------------------------------------------------------------------
(* Claims about configure and get_configuration (under SpecConfig)         *)

Has(d, t) == t \in DOMAIN d

\* a step that is a call of get_configuration / configure
GetConfigurationStep == ncalls' = ncalls + 1 /\ last'.op = "get_configuration"
ConfigureStep == ncalls' = ncalls + 1 /\ last'.op = "configure"

\* the entry of token t is the same in d and e
SameEntry(d, e, t) == (Has(d, t) <=> Has(e, t)) /\ (Has(d, t) => d[t] = e[t])

\* C3: whenever get_configuration(token) returns a value, the value is
\* configuration[token] for the token the caller passed.
C3_ReturnsRequestedToken ==
    (last.op = "get_configuration" /\ last.outcome = "return")
        => (Has(configuration, last.token) /\ last.value = configuration[last.token])

\* C4: get_configuration(token) for a token with no resolved configuration,
\* no pending data and no schema does not return a value: it ends in a key
\* error (unless validating another pending token raised first).
C4_UnknownTokenIsKeyError ==
    (/\ last.op = "get_configuration"
     /\ last.token \notin schemas
     /\ ~Has(configuration, last.token)
     /\ ~Has(pending, last.token)
     /\ last.outcome # "ValidationError")
        => last.outcome = "KeyError"

MergedEntry(d, t, data) == recursive_merge(d, Dict1(t, data))[t]

\* C6: configure routes each top-level token by schema presence at call
\* time: with a schema the validated data is merged into configuration and
\* the token's pending entry is untouched; without one the raw data is
\* merged into pending and the token's configuration entry is untouched;
\* tokens that are not in the input are untouched in both.
C6_ConfigureRoutesBySchema ==
    [][ConfigureStep =>
        /\ \A t \in DOMAIN last'.input :
              IF t \in schemas
              THEN /\ SameEntry(pending, pending', t)
                   /\ last'.outcome = "return" =>
                        /\ Has(configuration', t)
                        /\ configuration'[t] =
                              MergedEntry(configuration, t, process(last'.input[t]))
              ELSE /\ SameEntry(configuration, configuration', t)
                   /\ last'.outcome = "return" =>
                        /\ Has(pending', t)
                        /\ pending'[t] = MergedEntry(pending, t, last'.input[t])
        /\ \A t \in Tokens \ DOMAIN last'.input :
              SameEntry(pending, pending', t) /\ SameEntry(configuration, configuration', t)
        /\ (DOMAIN last'.input \subseteq schemas) => pending' = pending
        /\ (DOMAIN last'.input \cap schemas = {}) => configuration' = configuration]_vars

\* C6 witness: one configure call routed one token to configuration and
\* another to pending.
C6_Witness ==
    /\ last.op = "configure"
    /\ last.outcome = "return"
    /\ \E t, u \in DOMAIN last.input :
          /\ t \in schemas /\ Has(configuration, t) /\ ~Has(pending, t)
          /\ u \notin schemas /\ Has(pending, u) /\ ~Has(configuration, u)

\* new is old with add merged in key by key: keys of add that hold mappings
\* on both sides are merged recursively, other keys of add take add's value,
\* the remaining keys keep old's value
RECURSIVE MergedKeyByKey(_, _, _)
MergedKeyByKey(old, add, new) ==
    /\ DOMAIN new = DOMAIN old \cup DOMAIN add
    /\ \A k \in DOMAIN new :
          IF k \notin DOMAIN add THEN new[k] = old[k]
          ELSE IF k \in DOMAIN old /\ IsMap(old[k]) /\ IsMap(add[k])
               THEN IsMap(new[k]) /\ MergedKeyByKey(old[k].map, add[k].map, new[k].map)
               ELSE new[k] = add[k]

ExampleX == Map(Dict1("x", Leaf(1)))
ExampleY == Map(Dict1("y", Leaf(2)))
ExampleXY == Map([k \in {"x", "y"} |-> IF k = "x" THEN Leaf(Coerced(1)) ELSE Leaf(Coerced(2))])

\* C7: successive configure calls merge recursively: a configure call that
\* returns leaves, for every token of its input, the old entry merged key by
\* key with the (validated, or pending raw) data, a non-mapping value being
\* replaced by the later value; in particular configure({'a': {'x': 1}})
\* followed by configure({'a': {'y': 2}}) leaves both x and y resolved.
C7_RecursiveMergeAcrossCalls ==
    [][(ConfigureStep /\ last'.outcome = "return") =>
        /\ MergedKeyByKey(configuration,
                          [t \in DOMAIN last'.input \cap schemas |-> process(last'.input[t])],
                          configuration')
        /\ MergedKeyByKey(pending,
                          [t \in DOMAIN last'.input \ schemas |-> last'.input[t]],
                          pending')
        /\ (/\ "a" \in schemas
            /\ Has(configuration, "a")
            /\ configuration["a"] = process(ExampleX)
            /\ last'.input = Dict1("a", ExampleY))
              => configuration'["a"] = ExampleXY]_vars

\* C7 witness: configure({'a': {'y': 2}}) has just returned and the resolved
\* configuration of 'a' holds x and y.
C7_Witness ==
    /\ last.op = "configure"
    /\ last.input = Dict1("a", ExampleY)
    /\ Has(configuration, "a")
    /\ configuration["a"] = ExampleXY

----------------------------------------------------------------------------
(* Claims about instantiate and acquire (under SpecAcquire)                *)

Returned(th, a, k) ==
    ret[th].asm = a /\ ret[th].key = k /\ ret[th].outcome = "return"

\* C1: at-most-once instantiation: on every assembly and for every key, at
\* most one instantiator invocation does not fail; as long as none has
\* failed the instantiator is invoked at most once, and exactly once when a
\* caller has got an instance; every caller that got an instance got the
\* one in the cache, so all callers hold the identical instance.
C1_AtMostOnceInstantiation ==
    \A a \in AcquireAssemblies, k \in Keys :
        /\ invoked[a][k] - failed[a][k] <= 1
        /\ failed[a][k] = 0 => invoked[a][k] <= 1
        /\ \A th \in Threads :
              Returned(th, a, k) =>
                  /\ Has(cache[a], k)
                  /\ ret[th].instance = cache[a][k]
                  /\ invoked[a][k] - failed[a][k] = 1
        /\ \A t1, t2 \in Threads :
              (Returned(t1, a, k) /\ Returned(t2, a, k))
                  => ret[t1].instance = ret[t2].instance

\* C1 witness: two threads called instantiate for the same key of one
\* assembly while the other's call was in progress, the constructor never
\* failed, and both have got the instance.
C1_Witness ==
    \E a \in AcquireAssemblies, k \in Keys :
        \E t1, t2 \in Threads :
            /\ t1 # t2
            /\ Returned(t1, a, k) /\ Returned(t2, a, k)
            /\ ret[t2].overlap
            /\ failed[a][k] = 0
            /\ invoked[a][k] = 1

\* the step is the instantiator of th raising
FailStep(th) ==
    thread[th].pc = "construct" /\ thread'[th].pc = "release" /\ thread'[th].exc # None
\* the step is th leaving acquire with the exception
RaiseStep(th) ==
    thread[th].pc = "release" /\ thread[th].exc # None /\ thread'[th].pc = "idle"
\* the step is th looking its key up in the cache
LookupStep(th) ==
    thread[th].pc = "lookup" /\ thread'[th].pc # "lookup"

\* C2: a failed construction does not poison the cache: when the
\* instantiator raises, nothing is stored and the key has no entry; until
\* the failing caller has left acquire no step changes the cache of that
\* assembly; the caller gets the very exception the instantiator raised,
\* after the guard was released; and a later acquire of the same key misses
\* the cache and invokes the instantiator again.
C2_FailedConstructionNotCached ==
    [][\A th \in Threads :
        LET a == thread[th].asm
            k == thread[th].key
        IN  /\ FailStep(th) =>
                  /\ cache' = cache
                  /\ ~Has(cache'[a], k)
            /\ (thread[th].pc = "release" /\ thread[th].exc # None) =>
                  /\ cache'[a] = cache[a]
                  /\ ~Has(cache[a], k)
            /\ RaiseStep(th) =>
                  /\ ret'[th].outcome = "raise"
                  /\ ret'[th].exc = thread[th].exc
                  /\ ret'[th].key = k
                  /\ guard'[a].count = guard[a].count - 1
            /\ (LookupStep(th) /\ failed[a][k] > 0 /\ ~Has(cache[a], k)) =>
                  /\ thread'[th].pc = "construct"
                  /\ invoked'[a][k] = invoked[a][k] + 1]_vars

\* C2 witness: an instantiator has failed for a key, a later acquire of the
\* same key invoked it again and returned the new instance.
C2_Witness ==
    \E a \in AcquireAssemblies, k \in Keys, th \in Threads :
        /\ failed[a][k] = 1
        /\ invoked[a][k] = 2
        /\ Returned(th, a, k)
        /\ ret[th].instance = cache[a][k]
        /\ \E o \in Threads : ret[o].outcome = "raise" /\ ret[o].key = k /\ ret[o].asm = a

----------------------------------------------------------------------------
(* Claims about the current assembly (under SpecLocal)                     *)

LastThreadSlot == local[lastLocal.th]

\* C8 as stated: after a `with B:` block whose body left B current exits,
\* normally or by an exception, current() is what it was before entry.
C8_ScopedUseRestoresPrior ==
    /\ lastLocal.op = "enter" => current(LastThreadSlot) = lastLocal.self
    /\ (lastLocal.op = "exit" /\ lastLocal.slot = lastLocal.self)
          => current(LastThreadSlot) = current(lastLocal.prior)

\* C8 amended: right after entry current() is B; when the block exits,
\* normally or by an exception, the slot is unset if it still points to B
\* and is left alone otherwise; so after the exit of a block whose body left
\* B current, current() is the standard assembly, which is the state before
\* entry only if no assembly other than the standard one was current then.
C8_ScopedUseClearsSlot ==
    /\ lastLocal.op = "enter" =>
          /\ LastThreadSlot = lastLocal.self
          /\ current(LastThreadSlot) = lastLocal.self
    /\ lastLocal.op = "exit" =>
          /\ lastLocal.how \in {"normal", "exception"}
          /\ lastLocal.slot = lastLocal.self =>
                /\ LastThreadSlot = None
                /\ current(LastThreadSlot) = standard
                /\ (current(LastThreadSlot) = current(lastLocal.prior))
                      <=> (lastLocal.prior \in {None, standard})
          /\ lastLocal.slot # lastLocal.self => LastThreadSlot = lastLocal.slot

\* C8 witness: a block entered while A was promoted has exited by an
\* exception and the thread's slot is unset.
C8_Witness ==
    /\ lastLocal.op = "exit"
    /\ lastLocal.how = "exception"
    /\ lastLocal.self = "B"
    /\ lastLocal.slot = "B"
    /\ lastLocal.prior = "A"
    /\ LastThreadSlot = None

\* C9: promote/demote round trip: after a.promote() current() is a and the
\* call returned a; after a.demote() of the promoted a current() is the
\* standard assembly; current() returns the slot's assembly when it is set
\* and the standard assembly whenever the slot is unset.
C9_PromoteDemoteRoundTrip ==
    /\ lastLocal.op = "promote" =>
          /\ current(LastThreadSlot) = lastLocal.self
          /\ lastLocal.ret = lastLocal.self
    /\ (lastLocal.op = "demote" /\ lastLocal.slot = lastLocal.self) =>
          /\ current(LastThreadSlot) = standard
          /\ lastLocal.ret = lastLocal.self
    /\ lastLocal.op = "current" =>
          lastLocal.ret = IF lastLocal.slot = None THEN standard ELSE lastLocal.slot
    /\ \A th \in Threads :
          /\ local[th] = None => current(local[th]) = standard
          /\ local[th] # None => current(local[th]) = local[th]

\* C9 witness: an assembly other than the standard one was promoted and has
\* just been demoted again.
C9_Witness ==
    /\ lastLocal.op = "demote"
    /\ lastLocal.self = "A"
    /\ lastLocal.slot = "A"
    /\ LastThreadSlot = None

\* C10: demote on an assembly that is not the thread's current one leaves
\* the slot unchanged; demote unsets the slot only when it points to that
\* very assembly; demoting once more changes nothing.
C10_IdempotentDemote ==
    lastLocal.op = "demote" =>
        /\ lastLocal.slot # lastLocal.self => LastThreadSlot = lastLocal.slot
        /\ lastLocal.slot = lastLocal.self => LastThreadSlot = None
        /\ demote(LastThreadSlot, lastLocal.self) = LastThreadSlot

\* C10 witness: demote was called on an assembly while another one was
\* promoted on the thread, which still is.
C10_Witness ==
    /\ lastLocal.op = "demote"
    /\ lastLocal.self = "B"
    /\ lastLocal.slot = "A"
    /\ LastThreadSlot = "A"

----------------------------------------------------------------------------
(* Claims about collate (under SpecCollate)                                *)

\* a step that is a call of collate
CollateStep == collated' # collated /\ units' = units

\* the instances that match superclass in the cache c: the cached units of
\* that class, and the instances that dependencies declared with that class
\* resolved to
Matching(c, superclass) ==
    {i \in DOMAIN c : isinstance(c[i], superclass)}
    \cup {i \in UnitIds :
            \E j \in DOMAIN c : \E n \in DOMAIN c[j].dependencies :
                /\ issubclass(c[j].dependencies[n].unit, superclass)
                /\ c[j].dependencies[n].instance = i}

\* C11: collate(superclass, single=True) raises the ambiguity error when two
\* or more distinct matching instances exist, returns the absent value when
\* none exists, and returns the instance itself when exactly one exists,
\* whatever the cache holds (units with optional dependencies included).
C11_SingleCollate ==
    [][(CollateStep /\ collated'.single) =>
        LET m == Matching(units, collated'.superclass) IN
        /\ Cardinality(m) >= 2 => collated'.outcome = "Exception"
        /\ Cardinality(m) = 0 =>
              collated'.outcome = "return" /\ collated'.unit = NoneUnit
        /\ Cardinality(m) = 1 =>
              collated'.outcome = "return" /\ collated'.unit \in m]_vars

\* C12: collate(superclass) with single false returns exactly the set of the
\* cached instances of superclass and of the resolved dependency instances
\* whose declared class is a subclass of superclass, and nothing else.
C12_CollateSet ==
    [][(CollateStep /\ ~collated'.single) =>
        /\ collated'.outcome = "return"
        /\ collated'.units = Matching(units, collated'.superclass)]_vars

----------------------------------------------------------------------------
(* Claims about filter_configuration (under SpecFilter)                    *)

\* a step that is a call of filter_configuration
FilterStep == filtered' # filtered

\* C13: filter_configuration(prefix) returns exactly the entries of
\* configuration whose token starts with the prefix, the prefix taken with a
\* ':' appended unless it already ends with one; it never returns an entry
\* of pending, and it changes neither configuration nor pending.
C13_FilterByPrefix ==
    [][(FilterStep /\ filtered'.outcome = "return") =>
        LET p == filtered'.prefix
            q == IF p[Len(p)] = ":" THEN p ELSE Append(p, ":")
            value == filtered'.value
        IN /\ DOMAIN value = {t \in DOMAIN configuration : startswith(t, q)}
           /\ \A t \in DOMAIN value : value[t] = configuration[t]
           /\ configuration' = configuration
           /\ pending' = pending]_vars

\* filter_configuration('mesh') has returned the 'mesh:x' entry and left out
\* the configured 'mesh-proxy:x' and 'mesh' entries and a pending 'mesh:x'
C13_Witness ==
    /\ filtered.outcome = "return"
    /\ filtered.prefix = <<"m">>
    /\ DOMAIN configuration = FilterTokens
    /\ <<"m", ":", "x">> \in DOMAIN pending
    /\ DOMAIN filtered.value = {<<"m", ":", "x">>}

----------------------------------------------------------------------------
(* Claims about dependency tokens (under SpecTokens)                       *)

\* what a dependency requests: its unit type and its contributed parameters
Target(d) == <<d.unit, d.params>>

\* C14: the token of a MeshDependency or SchemaDependency is a function of
\* its unit type and contributed parameters only, and two dependencies with
\* different unit types or different parameters never have the same token.
C14_TokensCollisionFree ==
    \A i, j \in 1..Len(declared) :
        /\ Target(declared[i]) = Target(declared[j])
              => declared[i].token = declared[j].token
        /\ Target(declared[i]) # Target(declared[j])
              => declared[i].token # declared[j].token

----------------------------------------------------------------------------
(* Claims about the daemon runtime (under SpecDaemon)                      *)

\* the position of event e in the sequence of what the runtime did, 0 when
\* it did not happen
At(e) ==
    IF \E i \in 1..Len(boot.events) : boot.events[i] = e
    THEN CHOOSE i \in 1..Len(boot.events) : boot.events[i] = e
    ELSE 0

Happened(e) == At(e) > 0

\* what follows the lookup in Runtime.__init__
AfterLookup == {"detach", "pidfile", "switch_user", "run"}

\* C16: the daemon runtime deploys and starts up before it looks up the
\* daemon unit, runs the daemon only after the lookup returned exactly one
\* unit, and when the lookup finds no daemon or several it aborts with an
\* error without detaching, writing a pidfile, switching user or running.
C16_BootstrapOrder ==
    /\ Happened("lookup") =>
          /\ Happened("deploy") /\ Happened("startup")
          /\ At("deploy") < At("startup") /\ At("startup") < At("lookup")
    /\ \A e \in AfterLookup :
          Happened(e) => Happened("lookup") /\ At("lookup") < At(e)
    /\ Happened("run") =>
          /\ boot.found = {boot.daemon}
          /\ boot.daemon \in DOMAIN units
          /\ \A e \in AfterLookup \ {"run"} : At(e) < At("run")
    /\ (Happened("lookup")
          /\ Cardinality(Matching(units, "Daemon")) # 1) =>
          /\ boot.pc = "aborted" /\ boot.error # None
          /\ \A e \in AfterLookup : ~Happened(e)

\* the runtime ran the one daemon unit after detaching, writing the pidfile
\* and switching user, with a second unit deployed beside it
C16_Witness ==
    /\ Happened("run")
    /\ Happened("detach") /\ Happened("pidfile") /\ Happened("switch_user")
    /\ Cardinality(DOMAIN units) = 2

----------------------------------------------------------------------------
(* Claims about the guard (under SpecAcquire)                              *)

\* th has called the instantiator inside acquire and has not left acquire
Constructing(th) == thread[th].pc \in {"construct", "release"}

\* C18: while one thread executes an instantiator inside acquire on an
\* assembly, whether the construction succeeds or fails, every other thread
\* that has called acquire on the same assembly, for the same or another
\* key, waits for the guard: it has not read the cache, not started its
\* instantiator and not returned, and no step takes it further until the
\* first thread has left acquire.
C18_AcquisitionsExcluded ==
    [][\A th, o \in Threads :
        (th # o /\ Constructing(th) /\ thread[o].pc # "idle"
            /\ thread[o].asm = thread[th].asm) =>
            /\ thread[o].pc = "guard"
            /\ thread'[o] = thread[o]
            /\ ret'[o] = ret[o]]_vars

\* the instantiator of one thread has raised and the thread is still inside
\* acquire, while another thread waits to acquire an unrelated key on the
\* same assembly
C18_Witness ==
    \E th, o \in Threads :
        /\ th # o
        /\ thread[th].pc = "release" /\ thread[th].exc # None
        /\ thread[o].pc = "guard"
        /\ thread[o].asm = thread[th].asm
        /\ thread[o].key # thread[th].key

----------------------------------------------------------------------------
(* Claims about the guard under acquire, get_configuration and configure   *)
(* (under SpecGuard)                                                       *)

\* the calls th is inside of that have taken the guard and not released it
Holding(th) ==
    {i \in 1..Len(stack[th]) :
        stack[th][i].pc \in {"lookup", "construct", "resolve", "release"}}

\* C17: every call of acquire or get_configuration, whether it returns or
\* raises, leaves the hold count of the calling thread on the guard as it
\* was before the call, and when no thread is inside acquire or
\* get_configuration the guard is free.
C17_GuardReleasedOnEveryExit ==
    /\ exits.op # "none" => exits.after = exits.before
    /\ \A th \in Threads :
          Held(guard[standard], th) = Cardinality(Holding(th))
    /\ (\A th \in Threads : stack[th] = <<>>) =>
          guard[standard] = [owner |-> 0, count |-> 0]

\* a get_configuration call made by an instantiator, so with the guard held
\* once, has raised a validation error and left the hold count at one
C17_Witness ==
    /\ exits.op = "get_configuration"
    /\ exits.outcome = "ValidationError"
    /\ exits.before = 1
    /\ exits.after = 1

\* th is executing an instantiator inside acquire
InInstantiator(th) ==
    \E i \in 1..Len(stack[th]) :
        stack[th][i].op = "acquire" /\ stack[th][i].pc = "construct"

\* the step is th leaving a call of op
ExitStep(th, op) ==
    exits'.n = exits.n + 1 /\ exits'.th = th /\ exits'.op = op

\* C19 as stated: while one thread executes an instantiator inside acquire,
\* no get_configuration call of another thread completes, for any token,
\* resolved or not.
C19_ConfigurationReadsSerialized ==
    [][\A th, o \in Threads :
        (th # o /\ InInstantiator(th)) => ~ExitStep(o, "get_configuration")]_vars

\* C19 amended: while one thread executes an instantiator inside acquire, no
\* other thread holds the guard or is resolving pending tokens; a
\* get_configuration call of another thread that waits for the guard stays
\* waiting; the only get_configuration calls of other threads that complete
\* are calls for a token that is resolved already, which return without
\* taking the guard, and calls that had released the guard before and do
\* their final lookup.
C19_UnresolvedReadsSerialized ==
    [][\A th, o \in Threads :
        (th # o /\ InInstantiator(th)) =>
            /\ Held(guard[standard], o) = 0
            /\ Holding(o) = {}
            /\ InFrame(o, "get_configuration", "guard") =>
                  stack'[o] = stack[o]
            /\ ExitStep(o, "get_configuration") =>
                  \/ InFrame(o, "get_configuration", "final")
                  \/ /\ stack' = stack
                     /\ exits'.outcome = "return"
                     /\ configuration' = configuration
                     /\ pending' = pending]_vars

\* one thread executes an instantiator while another one, which called
\* get_configuration for a token that is not resolved, waits for the guard
C19_Witness ==
    \E th, o \in Threads :
        /\ th # o
        /\ InInstantiator(th)
        /\ InFrame(o, "get_configuration", "guard")
        /\ Top(o).key \notin DOMAIN configuration

\* C20: every write of cache, configuration or pending, by acquire,
\* configure or get_configuration, is made by a thread that holds the guard.
C20_WritesUnderGuard == written.held

----------------------------------------------------------------------------
(* Claims about resolving a schema dependency (under SpecDependency)       *)

\* a step that is a call of Schema.interface
InterfaceStep == resolved'.n = resolved.n + 1

\* the assembly promoted on the thread, the standard one when none is
PromotedAssembly ==
    IF local[Caller] \in Assemblies \ {standard} THEN local[Caller]
    ELSE standard

\* the assembly a was configured with {token: {'url': U}} and nothing else
ConfiguredWith(a, token) ==
    configs[a].times = 1 /\ DOMAIN configs[a].given = {token}

\* C15: with an assembly current on the thread that was configured with
\* {'schema:<name>': {'url': U}} and nothing else, resolving the schema
\* dependency for the name returns a SchemaInterface of that assembly whose
\* url is the validated U; and wherever a resolution finds the token cached
\* in the current assembly it returns the identical cached instance, leaving
\* the cache as it is.
C15_SharedSchemaInterface ==
    [][InterfaceStep =>
        LET a == PromotedAssembly
            token == SchemaToken(resolved'.name)
            got == resolved'.instance
        IN  /\ (ConfiguredWith(a, token) /\ token \in schemas) =>
                  /\ resolved'.outcome = "return"
                  /\ resolved'.asm = a
                  /\ got.cls = "SchemaInterface"
                  /\ got.asm = a
                  /\ got = cache'[a][token]
                  /\ token \notin DOMAIN cache[a] =>
                        got.url = process(configs[a].given[token]).map["url"]
            /\ token \in DOMAIN cache[a] =>
                  /\ resolved'.outcome = "return"
                  /\ got = cache[a][token]
                  /\ cache' = cache]_vars

\* the promoted assembly A was configured for 'schema:example' only, and the
\* second resolution under A returned the instance that the first one
\* constructed and cached
C15_Witness ==
    /\ local[Caller] = "A"
    /\ resolved.n = 2
    /\ resolved.outcome = "return"
    /\ resolved.asm = "A"
    /\ resolved.instance.asm = "A"
    /\ ConfiguredWith("A", SchemaToken(resolved.name))
    /\ DOMAIN cache["A"] = {SchemaToken(resolved.name)}
    /\ cache[standard] = EmptyDict

\* C26: when get_configuration ends in a validation error, configuration and
\* pending are as they were before the call: nothing was resolved and the
\* raw data of every pending token is still in pending.
C26_ValidationFailureKeepsData ==
    [][(GetConfigurationStep /\ last'.outcome = "ValidationError")
          => (configuration' = configuration /\ pending' = pending)]_vars

\* C25: when get_configuration(t) returns after configure calls have set a
\* scalar at key x of token t, the resolved configuration of t holds at x
\* the (validated) value of the LAST of these configure calls, whether the
\* calls came before or after the schema of t was registered.
C25_LaterConfigurationWins ==
    [][\A t \in Tokens :
          (/\ GetConfigurationStep
           /\ last'.token = t
           /\ last'.outcome = "return"
           /\ latest[t] # 0
           /\ Has(configuration', t))
              => configuration'[t].map["x"] = Leaf(Coerced(latest[t]))]_vars

\* a step in which thread th calls promote or demote (directly or through
\* __enter__ / __exit__)
PromoteOrDemoteBy(th) ==
    /\ nlocal' = nlocal + 1
    /\ lastLocal'.th = th
    /\ lastLocal'.op \in {"promote", "demote", "enter", "exit"}

\* what Assembly.current() returns on thread th
Sees(slots, th) == IF slots[th] # None THEN slots[th] ELSE standard

\* C22: every thread starts out seeing the standard assembly; a promote or
\* demote executed by one thread leaves what current() returns on every
\* other thread unchanged and leaves every guard untouched; a thread that
\* sees the standard assembly keeps seeing it until it promotes itself.
C22_CurrentIsThreadLocal ==
    /\ \A th \in Threads : Sees(local, th) = standard
    /\ [][\A th \in Threads :
            /\ PromoteOrDemoteBy(th) =>
                  /\ \A o \in Threads \ {th} : Sees(local', o) = Sees(local, o)
                  /\ guard' = guard
            /\ (Sees(local, th) = standard /\ Sees(local', th) # standard)
                  => (PromoteOrDemoteBy(th) /\ lastLocal'.op \in {"promote", "enter"})]_vars

\* thread 1 has promoted A and demoted it again while thread 2, which had
\* promoted B, still sees B
C22_Witness ==
    /\ lastLocal.op = "demote"
    /\ lastLocal.th = 1
    /\ lastLocal.slot = "A"
    /\ local[1] = None
    /\ local[2] = "B"

\* C24: once the cache of the assembly holds an instance under key k, no
\* step replaces it by another instance and the instantiator of k is not
\* invoked again, also when an instantiator of k has re-entered acquire for
\* k on its own thread.
C24_CacheEntriesStable ==
    [][\A k \in Keys :
          k \in DOMAIN cache[standard]
              => /\ k \in DOMAIN cache'[standard]
                 /\ cache'[standard][k] = cache[standard][k]
                 /\ invoked'[standard][k] = invoked[standard][k]]_vars

\* C21: under fair scheduling every acquire and get_configuration call
\* eventually returns or raises: a thread that is inside calls eventually
\* has left all of them.  This includes the calls a thread makes from
\* inside an instantiator while it holds the guard.
C21_EveryCallEnds ==
    \A th \in Threads : (stack[th] # <<>>) ~> (stack[th] = <<>>)

\* a thread inside the instantiator of one key has acquired another key
\* from there, and its get_configuration call from there has taken the
\* guard a second time and resolved the pending tokens
C21_Witness ==
    \E th \in Threads :
        /\ Len(stack[th]) = 2
        /\ stack[th][1].op = "acquire"
        /\ stack[th][1].pc = "construct"
        /\ InFrame(th, "get_configuration", "release")
        /\ guard[standard] = [owner |-> th, count |-> 2]
        /\ DOMAIN cache[standard] = Keys \ {stack[th][1].key}
        /\ pending # [t \in Tokens |-> Map(Dict1("x", Leaf(IF t = "a" THEN 1 ELSE BadScalar)))]

\* thread th has returned from _acquire_engine
GotEngine(th) == ethread[th].pc = "idle" /\ ethread[th].op = "acquire_engine"

\* C23: with no purge, at most one engine (with its session factory) is
\* ever created for one constructed URL, and every _acquire_engine call
\* that has returned was given the engine cached for its URL, which was
\* created for that URL.
C23_OneEnginePerUrl ==
    /\ \A i, j \in 1..Len(engines) : engines[i] = engines[j] => i = j
    /\ \A th \in Threads :
          GotEngine(th) =>
              /\ ethread[th].url \in DOMAIN ecache
              /\ ethread[th].got = ecache[ethread[th].url]
              /\ engines[ethread[th].got] = ethread[th].url

\* two threads both missed the lookup made without the guard for the same
\* URL, and both have returned the one engine created for it
C23_Witness ==
    /\ GotEngine(1) /\ GotEngine(2)
    /\ ethread[1].missed /\ ethread[2].missed
    /\ ethread[1].url = ethread[2].url
    /\ ethread[1].got = ethread[2].got
    /\ engines = <<ethread[1].url>>

\* C27: under every interleaving of purge with _acquire_engine,
\* _acquire_engine never returns an engine that purge has disposed, and
\* whenever no call is inside the guarded section every engine created so
\* far is disposed or still in the cache.
C27_PurgeVersusLookup ==
    /\ [](eguard = 0 =>
            \A i \in 1..Len(engines) :
                i \in disposed \/ \E u \in DOMAIN ecache : ecache[u] = i)
    /\ [][\A th \in Threads :
            (/\ ethread'[th] # ethread[th]
             /\ ethread'[th].pc = "idle"
             /\ ethread'[th].op = "acquire_engine")
                => ethread'[th].got \notin disposed']_vars

\* the callbacks in a sequence of callbacks / of invocations
Ids(calls) == {calls[i] : i \in 1..Len(calls)}
Invoked == {history.invoked[i].id : i \in 1..Len(history.invoked)}

\* C28: no callback is invoked twice; callbacks are invoked in the order of
\* their registration; a callback is invoked by the first commit that
\* succeeds after its registration (for a callback registered while a
\* commit runs its callbacks: by the next commit); a callback discarded by
\* rollback or close is never invoked; and every registered callback that
\* is not discarded is invoked: it is still registered, about to be run by
\* the commit in progress, or has been invoked.
C28_AfterCommitCallbacks ==
    /\ \A i, j \in 1..Len(history.invoked) :
          i < j => history.invoked[i].id < history.invoked[j].id
    /\ \A i \in 1..Len(history.invoked) :
          /\ history.invoked[i].commit = history.epochs[history.invoked[i].id] + 1
          /\ history.invoked[i].id \notin history.discarded
    /\ \A c \in 1..Len(history.epochs) :
          c \in Ids(callbacks) \cup Ids(loop.rest) \cup Invoked \cup history.discarded

====
